---- MODULE Spec2Model ----
(***************************************************************************)
(* A model of the command-execution engine of the UFS host controller     *)
(* driver, drivers/scsi/ufs/ufshcd.c: the transfer-request slot table and  *)
(* its doorbell reconciliation, the task-management ring, clock gating,    *)
(* clock scaling and the error/reset state machine.                        *)
(*                                                                         *)
(* Bitmaps (outstanding_reqs, lrb_in_use, doorbell registers, ...) are     *)
(* sets of bit positions.  A section of code that runs with the host lock  *)
(* held is one action guarded by host_lock = "free"; the interrupt         *)
(* handler keeps the lock over several steps because the hardware changes  *)
(* its registers while the handler runs.  Accesses the code makes without  *)
(* the lock are separate steps.                                            *)
(***************************************************************************)
EXTENDS Integers, FiniteSets, Sequences, TLC

\* hba->nutrs: number of transfer request slots
NTags == 2
\* hba->nutmrs: number of task management request slots
NTmSlots == 1
\* Device management commands that time out in one run
MaxDevTimeouts == 1
\* Callers of ufshcd_exec_raw_upiu_cmd that send task management requests
NRawIssuers == 2
\* Rounds of the QUERY_TASK poll loop of ufshcd_abort (100 in the source)
AbortPollCnt == 2
\* Error interrupts the controller raises in one run
MaxErrors == 2
\* Threads that issue link control commands
NUicIssuers == 2
\* MAX_HOST_RESET_RETRIES: attempts of one ufshcd_reset_and_restore
MAX_HOST_RESET_RETRIES == 5
\* NOP_OUT_RETRIES: rounds of the loop of ufshcd_verify_dev_init
NOP_OUT_RETRIES == 10

Tags == 0 .. (NTags - 1)
TmSlots == 0 .. (NTmSlots - 1)

\* the cmd field of a local reference block: NULL or the SCSI command
NULL == "NULL"
CMD == "CMD"

\* UFSHCD_STATE_* (hba->ufshcd_state)
UFSHCD_STATE_RESET == "RESET"
UFSHCD_STATE_OPERATIONAL == "OPERATIONAL"
UFSHCD_STATE_ERROR == "ERROR"
UFSHCD_STATE_EH_SCHEDULED_FATAL == "EH_SCHEDULED_FATAL"
UFSHCD_STATE_EH_SCHEDULED_NON_FATAL == "EH_SCHEDULED_NON_FATAL"
RunStates == {UFSHCD_STATE_RESET, UFSHCD_STATE_OPERATIONAL, UFSHCD_STATE_ERROR,
              UFSHCD_STATE_EH_SCHEDULED_FATAL, UFSHCD_STATE_EH_SCHEDULED_NON_FATAL}

\* overall command status of a transfer request descriptor (header.dword_2)
OCS_SUCCESS == "OCS_SUCCESS"
OCS_ABORTED == "OCS_ABORTED"
OCS_INVALID_COMMAND_STATUS == "OCS_INVALID_COMMAND_STATUS"
OCS_FATAL_ERROR == "OCS_FATAL_ERROR"
OCS_PEER_COMM_FAILURE == "OCS_PEER_COMM_FAILURE"
OcsValues == {OCS_SUCCESS, OCS_ABORTED, OCS_INVALID_COMMAND_STATUS,
              OCS_FATAL_ERROR, OCS_PEER_COMM_FAILURE}

\* transaction code of the response UPIU
UPIU_TRANSACTION_RESPONSE == "RESPONSE"
UPIU_TRANSACTION_REJECT_UPIU == "REJECT_UPIU"
UPIU_TRANSACTION_NOP_IN == "NOP_IN"

\* SCSI status byte of the response UPIU
SAM_STAT_GOOD == "GOOD"
SAM_STAT_CHECK_CONDITION == "CHECK_CONDITION"
SAM_STAT_BUSY == "BUSY"
SAM_STAT_RESERVATION_CONFLICT == "RESERVATION_CONFLICT"

\* host byte of a SCSI result
DID_OK == "DID_OK"
DID_ABORT == "DID_ABORT"
DID_REQUEUE == "DID_REQUEUE"
DID_ERROR == "DID_ERROR"
DID_BAD_TARGET == "DID_BAD_TARGET"
\* the value ufshcd_queuecommand returns to have the command retried
SCSI_MLQUEUE_HOST_BUSY == "SCSI_MLQUEUE_HOST_BUSY"

\* lrbp->command_type
UTP_CMD_TYPE_SCSI == "SCSI"
UTP_CMD_TYPE_DEV_MANAGE == "DEV_MANAGE"
UTP_CMD_TYPE_UFS_STORAGE == "UFS_STORAGE"

\* bits of REG_INTERRUPT_STATUS
UTP_TRANSFER_REQ_COMPL == "UTRCS"
UTP_TASK_REQ_COMPL == "UTMRCS"
UIC_ERROR == "UE"
DEVICE_FATAL_ERROR == "DFES"
CONTROLLER_FATAL_ERROR == "CFES"
SYSTEM_BUS_FATAL_ERROR == "SBFES"
INT_FATAL_ERRORS == {DEVICE_FATAL_ERROR, CONTROLLER_FATAL_ERROR, SYSTEM_BUS_FATAL_ERROR}
UFSHCD_ERROR_MASK == {UIC_ERROR} \cup INT_FATAL_ERRORS
UIC_COMMAND_COMPL == "UCCS"
UIC_POWER_MODE == "UPMS"
UIC_HIBERNATE_ENTER == "UHES"
UIC_HIBERNATE_EXIT == "UHXS"
UFSHCD_UIC_HIBERN8_MASK == {UIC_HIBERNATE_ENTER, UIC_HIBERNATE_EXIT}
UFSHCD_UIC_PWR_MASK == UFSHCD_UIC_HIBERN8_MASK \cup {UIC_POWER_MODE}
UFSHCD_UIC_MASK == {UIC_COMMAND_COMPL} \cup UFSHCD_UIC_PWR_MASK
UFSHCD_ENABLE_INTRS == {UTP_TRANSFER_REQ_COMPL, UTP_TASK_REQ_COMPL}
                           \cup UFSHCD_ERROR_MASK
\* the bits of REG_INTERRUPT_ENABLE that UFSHCI 1.0 stores as written; a 1
\* written to any other bit of that version toggles it
INTERRUPT_MASK_RW_VER_10 == {CONTROLLER_FATAL_ERROR, SYSTEM_BUS_FATAL_ERROR}

\* link control commands and the power mode change status UPMCRS
UIC_CMD_DME_GET == "DME_GET"
UIC_CMD_DME_SET == "DME_SET"
UIC_CMD_DME_HIBER_ENTER == "DME_HIBER_ENTER"
UIC_CMD_DME_HIBER_EXIT == "DME_HIBER_EXIT"
PWR_OK == "PWR_OK"
PWR_LOCAL == "PWR_LOCAL"
PWR_FATAL_ERROR == "PWR_FATAL_ERROR"

\* bits of hba->uic_error
UFSHCD_UIC_DL_PA_INIT_ERROR == "DL_PA_INIT"
UFSHCD_UIC_DL_NAC_RECEIVED_ERROR == "DL_NAC_RECEIVED"
UFSHCD_UIC_NL_ERROR == "NL"

\* the response area of a descriptor as the submitter prepares it
\* (ufshcd_prepare_req_desc_hdr presets the overall status)
PreparedDesc == [ocs |-> OCS_INVALID_COMMAND_STATUS, rsp |-> UPIU_TRANSACTION_RESPONSE,
                 status |-> SAM_STAT_GOOD]

\* what the device may write into a descriptor when it completes a command
RspTypes == {UPIU_TRANSACTION_RESPONSE, UPIU_TRANSACTION_REJECT_UPIU,
             UPIU_TRANSACTION_NOP_IN}
ScsiStatuses == {SAM_STAT_GOOD, SAM_STAT_CHECK_CONDITION, SAM_STAT_BUSY,
                 SAM_STAT_RESERVATION_CONFLICT}
DeviceDescs == [ocs : OcsValues, rsp : RspTypes, status : ScsiStatuses]

\* the device answers every request with success
OneDesc == {[ocs |-> OCS_SUCCESS, rsp |-> UPIU_TRANSACTION_RESPONSE,
             status |-> SAM_STAT_GOOD]}

\* task management functions and service responses
UFS_ABORT_TASK == "ABORT_TASK"
UFS_QUERY_TASK == "QUERY_TASK"
UFS_LOGICAL_RESET == "LOGICAL_RESET"
UPIU_TASK_MANAGEMENT_FUNC_COMPL == "FUNC_COMPL"
UPIU_TASK_MANAGEMENT_FUNC_SUCCEEDED == "FUNC_SUCCEEDED"

\* hba->clk_gating.state
CLKS_OFF == "CLKS_OFF"
CLKS_ON == "CLKS_ON"
REQ_CLKS_OFF == "REQ_CLKS_OFF"
REQ_CLKS_ON == "REQ_CLKS_ON"

\* hba->uic_link_state
UIC_LINK_OFF_STATE == "LINK_OFF"
UIC_LINK_ACTIVE_STATE == "LINK_ACTIVE"
UIC_LINK_HIBERN8_STATE == "LINK_HIBERN8"
UIC_LINK_BROKEN_STATE == "LINK_BROKEN"

VARIABLES
    \* ---- configuration read at probe time ----
    caps,               \* hba->caps and quirks: which features are enabled
    ufs_version,        \* hba->ufs_version: "V10", "V11" or "V2" (later)
    \* ---- hardware registers and descriptor memory ----
    tr_doorbell,        \* REG_UTP_TRANSFER_REQ_DOOR_BELL
    tm_doorbell,        \* REG_UTP_TASK_REQ_DOOR_BELL
    intr_status,        \* REG_INTERRUPT_STATUS
    utrd,               \* per tag: the transfer request descriptor and response
    clocks_on,          \* the controller clocks are running
    \* ---- struct ufs_hba: transfer requests ----
    outstanding_reqs,   \* hba->outstanding_reqs
    lrb_in_use,         \* hba->lrb_in_use
    lrb_cmd,            \* per tag: hba->lrb[tag].cmd
    lrb_command_type,   \* per tag: hba->lrb[tag].command_type
    req_abort_skip,     \* the tags whose hba->lrb[tag].req_abort_skip is set
    dev_cmd_complete,   \* hba->dev_cmd.complete: NULL, "WAIT" or "DONE"
    clk_scaling_active_reqs, \* hba->clk_scaling.active_reqs
    clk_scaling_lock,   \* readers and writer of hba->clk_scaling_lock
    host_lock,          \* who holds hba->host->host_lock
    scsi_block_reqs_cnt, \* hba->scsi_block_reqs_cnt
    \* ---- struct ufs_hba: task management ----
    outstanding_tasks,  \* hba->outstanding_tasks
    tm_slots_in_use,    \* hba->tm_slots_in_use
    tm_condition,       \* hba->tm_condition
    utmrd,              \* per slot: the task management request descriptor
    \* ---- struct ufs_hba: clock gating ----
    clk_gating,         \* hba->clk_gating: state, active_reqs, is_suspended
    gate_work,          \* hba->clk_gating.gate_work (delayed work)
    ungate_work,        \* hba->clk_gating.ungate_work
    irq_enabled,        \* hba->is_irq_enabled
    \* ---- struct ufs_hba: errors and recovery ----
    ufshcd_state,       \* hba->ufshcd_state
    saved_err,          \* hba->saved_err
    saved_uic_err,      \* hba->saved_uic_err
    force_reset,        \* hba->force_reset
    uic_link_state,     \* hba->uic_link_state
    pm_op_in_progress,  \* hba->pm_op_in_progress
    eh_work,            \* hba->eh_work on hba->eh_wq
    \* ---- struct ufs_hba: link control commands ----
    active_uic_cmd,     \* hba->active_uic_cmd
    uic_async_done,     \* hba->uic_async_done
    uic_error,          \* hba->uic_error
    uic_error_code,     \* the UIC error code registers (REG_UIC_ERROR_CODE_*)
    intr_enable,        \* REG_INTERRUPT_ENABLE
    upmcrs,             \* the field UPMCRS of REG_CONTROLLER_STATUS
    uic_hw,             \* the UIC command unit of the controller
    uic_cmd_mutex,      \* the owner of hba->uic_cmd_mutex
    uic_cmd,            \* per issuer: its struct uic_command and its position
                        \* in ufshcd_send_uic_cmd or ufshcd_uic_pwr_ctrl
    \* ---- threads ----
    qc,                 \* per tag: position of ufshcd_queuecommand
    devcmd,             \* the device management command (ufshcd_exec_dev_cmd)
    intr,               \* the interrupt handler (ufshcd_intr)
    tm,                 \* per issuer: position of __ufshcd_issue_tm_cmd
    abort,              \* ufshcd_abort
    holder,             \* a user of ufshcd_hold / ufshcd_release
    scaling,            \* ufshcd_devfreq_scale
    eh,                 \* ufshcd_err_handler
    eh_host_reset,      \* ufshcd_eh_host_reset_handler
    link_recovery,      \* ufshcd_link_recovery
    \* ---- history, read by the properties only ----
    hist                \* dbsame: the transfer doorbell has not changed since
                        \* ufshcd_transfer_req_compl last read it

cfgVars == <<caps, ufs_version>>
\* the callers of the recovery from outside the error handler
resetVars == <<eh_host_reset, link_recovery>>
\* the link control command channel
chanVars == <<intr_enable, upmcrs, uic_hw, uic_cmd_mutex, uic_cmd>>
\* the transfer ring and its slot table
ringVars == <<tr_doorbell, utrd, outstanding_reqs, lrb_in_use, lrb_cmd,
              lrb_command_type,
             req_abort_skip,
              dev_cmd_complete, clk_scaling_active_reqs>>
tmVars == <<tm_doorbell, outstanding_tasks, tm_slots_in_use, tm_condition, utmrd, tm,
           abort>>
\* what __ufshcd_release writes
releaseVars == <<clk_gating, gate_work>>
gateRestVars == <<ungate_work, clocks_on, irq_enabled, scsi_block_reqs_cnt, holder>>
gateVars == <<releaseVars, gateRestVars>>
ehVars == <<ufshcd_state, saved_err, saved_uic_err, force_reset, uic_link_state,
            pm_op_in_progress, eh_work, eh>>
uicVars == <<active_uic_cmd, uic_async_done, uic_error, uic_error_code>>
scaleVars == <<scaling>>

vars == <<cfgVars, resetVars, chanVars, ringVars, intr_status, clk_scaling_lock,
          host_lock, qc, devcmd, intr,
          tmVars, gateVars, ehVars, uicVars, scaleVars, hist>>

\* ------------------------------------------------------------------------
\* bitmap helpers
\* ------------------------------------------------------------------------
Xor(a, b) == (a \ b) \cup (b \ a)

Max(S) == CHOOSE x \in S : \A y \in S : y <= x
Min(S) == CHOOSE x \in S : \A y \in S : x <= y

\* find_last_bit(&tmp, nutrs) with tmp = ~lrb_in_use; NTags when none is found
FindLastFree(in_use) ==
    IF Tags \ in_use = {} THEN NTags ELSE Max(Tags \ in_use)

\* a set_bit that reports the bit as free whatever its old value
TestAndSetNeverTaken(bit, word) == [old |-> FALSE, word |-> word \cup {bit}]

\* test_and_set_bit_lock(bit, &word): the old value of the bit and the new word,
\* in one atomic step
TestAndSetBitLock(bit, word) == [old |-> bit \in word, word |-> word \cup {bit}]

\* ------------------------------------------------------------------------
\* clock gating: ufshcd_hold and __ufshcd_release as functions of the gating
\* state they read and write.  g is [cg, gw, uw, blk]: hba->clk_gating, the
\* gate work, the ungate work and hba->scsi_block_reqs_cnt.  The gate work
\* is [pending, pc, cancelled]: queued and not yet started, the position of
\* the running handler, and whether the last cancel_delayed_work of
\* ufshcd_hold took the work queued by the last release off the queue.
\* ------------------------------------------------------------------------
Gating == [cg |-> clk_gating, gw |-> gate_work, uw |-> ungate_work,
           blk |-> scsi_block_reqs_cnt]

\* ufshcd_is_link_hibern8 under ufshcd_can_hibern8_during_gating
LinkHibern8DuringGating(link) ==
    caps.hibern8_gating /\ link = UIC_LINK_HIBERN8_STATE

\* case CLKS_ON of ufshcd_hold with the link still in hibern8: an
\* asynchronous caller gives up, a blocking caller flushes the ungate work
\* and looks at is_suspended and at the result of the flush afterwards
HoldClksOnHibern8(g, async) ==
    IF async
    THEN [rc |-> "EAGAIN", g |-> [g EXCEPT !.cg.active_reqs = @ - 1]]
    ELSE [rc |-> "FLUSH_ON", g |-> g]

\* a tail of the switch that leaves the asynchronous caller counted in
\* active_reqs
HoldReqClksOnCounted(g, async) ==
    IF async
    THEN [rc |-> "EAGAIN", g |-> g]
    ELSE [rc |-> "FLUSH", g |-> g]

\* a tail of the switch that grants the hold without waiting for the ungate
\* work
HoldReqClksOnNoWait(g, async) == [rc |-> "OK", g |-> g]

\* the tail of the switch of ufshcd_hold shared by CLKS_OFF and REQ_CLKS_ON:
\* an asynchronous caller gives up, a blocking caller flushes the ungate work
HoldReqClksOn(g, async) ==
    IF async
    THEN [rc |-> "EAGAIN", g |-> [g EXCEPT !.cg.active_reqs = @ - 1]]
    ELSE [rc |-> "FLUSH", g |-> g]

\* case CLKS_OFF of ufshcd_hold: ask for the clocks and queue the ungate work;
\* requests are blocked when queue_work really queued it
HoldClksOff(g, async) ==
    LET queued == ~g.uw.pending
        g1 == [g EXCEPT !.cg.state = REQ_CLKS_ON,
                        !.uw.pending = TRUE,
                        !.blk = IF queued THEN @ + 1 ELSE @]
    IN  HoldReqClksOn(g1, async)

\* a switch of ufshcd_hold that takes the gate work for cancelled although it
\* is already running
HoldSwitchCancelUnchecked(g, link, async) ==
    CASE g.cg.state = CLKS_ON ->
            IF LinkHibern8DuringGating(link)
            THEN HoldClksOnHibern8(g, async)
            ELSE [rc |-> "OK", g |-> g]
      [] g.cg.state = REQ_CLKS_OFF ->
            [rc |-> "OK", g |-> [g EXCEPT !.gw.pending = FALSE,
                                          !.gw.cancelled = TRUE,
                                          !.cg.state = CLKS_ON]]
      [] g.cg.state = CLKS_OFF -> HoldClksOff(g, async)
      [] g.cg.state = REQ_CLKS_ON -> HoldReqClksOn(g, async)

\* a switch of ufshcd_hold that never tries to cancel the gate work and
\* always asks the ungate work for the clocks
HoldSwitchNeverCancels(g, link, async) ==
    CASE g.cg.state = CLKS_ON ->
            IF LinkHibern8DuringGating(link)
            THEN HoldClksOnHibern8(g, async)
            ELSE [rc |-> "OK", g |-> g]
      [] g.cg.state \in {REQ_CLKS_OFF, CLKS_OFF} -> HoldClksOff(g, async)
      [] g.cg.state = REQ_CLKS_ON -> HoldReqClksOn(g, async)

\* the switch of ufshcd_hold from the label start, with the host lock held
HoldSwitch(g, link, async) ==
    CASE g.cg.state = CLKS_ON ->
            IF LinkHibern8DuringGating(link)
            THEN HoldClksOnHibern8(g, async)
            ELSE [rc |-> "OK", g |-> g]
      [] g.cg.state = REQ_CLKS_OFF ->
            \* cancel_delayed_work succeeds while the work is still pending
            IF g.gw.pending
            THEN [rc |-> "OK", g |-> [g EXCEPT !.gw.pending = FALSE,
                                                !.gw.cancelled = TRUE,
                                                !.cg.state = CLKS_ON]]
            ELSE HoldClksOff(g, async)
      [] g.cg.state = CLKS_OFF -> HoldClksOff(g, async)
      [] g.cg.state = REQ_CLKS_ON -> HoldReqClksOn(g, async)

\* ufshcd_hold up to its first return or sleep
ufshcd_hold(g, link, async) ==
    IF ~caps.clk_gating
    THEN [rc |-> "OK", g |-> g]
    ELSE HoldSwitch([g EXCEPT !.cg.active_reqs = @ + 1], link, async)

\* a release that does not look at is_suspended
ReleaseSuspendIgnored(g, in_use, tasks, state, uic) ==
    IF ~caps.clk_gating
    THEN g
    ELSE LET g1 == [g EXCEPT !.cg.active_reqs = @ - 1] IN
         IF \/ g1.cg.active_reqs # 0
            \/ state # UFSHCD_STATE_OPERATIONAL
            \/ in_use # {}
            \/ tasks # {}
            \/ uic
         THEN g1
         ELSE [g1 EXCEPT !.cg.state = REQ_CLKS_OFF, !.gw.pending = TRUE,
                         !.gw.cancelled = FALSE]

\* __ufshcd_release, host lock held; in_use, tasks, state and uic are the
\* values of lrb_in_use, outstanding_tasks, ufshcd_state and of
\* (active_uic_cmd or uic_async_done) at the call
__ufshcd_release(g, in_use, tasks, state, uic) ==
    IF ~caps.clk_gating
    THEN g
    ELSE LET g1 == [g EXCEPT !.cg.active_reqs = @ - 1] IN
         IF \/ g1.cg.active_reqs # 0
            \/ g1.cg.is_suspended
            \/ state # UFSHCD_STATE_OPERATIONAL
            \/ in_use # {}
            \/ tasks # {}
            \/ uic
         THEN g1
         ELSE [g1 EXCEPT !.cg.state = REQ_CLKS_OFF, !.gw.pending = TRUE,
                         !.gw.cancelled = FALSE]

UicBusy == active_uic_cmd # NULL \/ uic_async_done # NULL

\* ufshcd_release called with the values of this state
ReleaseNow(g, in_use, state) ==
    __ufshcd_release(g, in_use, outstanding_tasks, state, UicBusy)

\* the gating variables take the values of g
SetGating(g) ==
    /\ clk_gating' = g.cg
    /\ gate_work' = g.gw
    /\ ungate_work' = g.uw
    /\ scsi_block_reqs_cnt' = g.blk

\* ------------------------------------------------------------------------
\* completion of transfer requests
\* ------------------------------------------------------------------------
\* ufshcd_scsi_cmd_status: the host byte and the status byte of the result
ufshcd_scsi_cmd_status(scsi_status) ==
    CASE scsi_status \in {SAM_STAT_CHECK_CONDITION, SAM_STAT_GOOD} ->
            [host |-> DID_OK, status |-> scsi_status]
      [] scsi_status = SAM_STAT_BUSY ->
            [host |-> DID_OK, status |-> scsi_status]
      [] OTHER -> [host |-> DID_ERROR, status |-> SAM_STAT_GOOD]

\* ufshcd_transfer_rsp_status for the descriptor d of the completed slot
ufshcd_transfer_rsp_status(d) ==
    LET ocs == IF caps.broken_ocs_quirk /\ d.status # SAM_STAT_GOOD
               THEN OCS_SUCCESS ELSE d.ocs
    IN  CASE ocs = OCS_SUCCESS ->
                IF d.rsp = UPIU_TRANSACTION_RESPONSE
                THEN ufshcd_scsi_cmd_status(d.status)
                ELSE [host |-> DID_ERROR, status |-> SAM_STAT_GOOD]
          [] ocs = OCS_ABORTED -> [host |-> DID_ABORT, status |-> SAM_STAT_GOOD]
          [] ocs = OCS_INVALID_COMMAND_STATUS ->
                [host |-> DID_REQUEUE, status |-> SAM_STAT_GOOD]
          [] OTHER -> [host |-> DID_ERROR, status |-> SAM_STAT_GOOD]

\* the slot table as one value: what __ufshcd_transfer_req_compl reads and writes
Ring == [out |-> outstanding_reqs, in_use |-> lrb_in_use, cmd |-> lrb_cmd,
         complete |-> dev_cmd_complete, sc |-> clk_scaling_active_reqs,
         g |-> Gating, h |-> hist]

SetRing(r) ==
    /\ outstanding_reqs' = r.out
    /\ lrb_in_use' = r.in_use
    /\ lrb_cmd' = r.cmd
    /\ dev_cmd_complete' = r.complete
    /\ clk_scaling_active_reqs' = r.sc
    /\ SetGating(r.g)
    /\ hist' = r.h

\* the __ufshcd_release calls of one pass, in the order of the bit loop: each
\* sees lrb_in_use with the bits of the slots released so far cleared
RECURSIVE ReleaseEach(_, _, _, _)
ReleaseEach(done, g, in_use, state) ==
    IF done = {}
    THEN g
    ELSE LET t == Min(done)
             iu == in_use \ {t}
         IN  ReleaseEach(done \ {t}, ReleaseNow(g, iu, state), iu, state)

\* scsi_done for the slots in done, as the callers of the commands see it
\* a notification that takes the result from the descriptor of the next slot
ScsiDoneNextSlot(h, done, completed) ==
    [h EXCEPT
        !.result = [t \in Tags |->
                       IF t \in done
                       THEN ufshcd_transfer_rsp_status(utrd[(t + 1) % NTags]).host
                       ELSE @[t]],
        !.blk = [t \in Tags |->
                    IF t \notin done THEN @[t]
                    ELSE IF @[t] = "owned" THEN "free"
                    ELSE IF @[t] = "queuing" THEN "queuing_done"
                    ELSE @[t]],
        !.claims = [t \in Tags |-> IF t \in done THEN 0 ELSE @[t]],
        !.notified = [t \in Tags |-> IF t \in done THEN @[t] + 1 ELSE @[t]],
        !.devclr = @ \ done,
        !.sub = @ \ completed]

ScsiDone(h, done, completed) ==
    [h EXCEPT
        !.result = [t \in Tags |->
                       IF t \in done THEN ufshcd_transfer_rsp_status(utrd[t]).host
                       ELSE @[t]],
        !.blk = [t \in Tags |->
                    IF t \notin done THEN @[t]
                    ELSE IF @[t] = "owned" THEN "free"
                    ELSE IF @[t] = "queuing" THEN "queuing_done"
                    ELSE @[t]],
        !.claims = [t \in Tags |-> IF t \in done THEN 0 ELSE @[t]],
        !.notified = [t \in Tags |-> IF t \in done THEN @[t] + 1 ELSE @[t]],
        !.devclr = @ \ done,
        !.sub = @ \ completed]

\* __ufshcd_transfer_req_compl(hba, completed_reqs), host lock held; state is
\* hba->ufshcd_state at the call
__ufshcd_transfer_req_compl(r, completed, state) ==
    LET done == {t \in completed : r.cmd[t] # NULL}
        devs == {t \in completed :
                    /\ r.cmd[t] = NULL
                    /\ lrb_command_type[t] \in {UTP_CMD_TYPE_DEV_MANAGE,
                                                 UTP_CMD_TYPE_UFS_STORAGE}}
    IN  [r EXCEPT
            !.cmd = [t \in Tags |-> IF t \in done THEN NULL ELSE @[t]],
            !.in_use = @ \ done,
            !.complete = IF devs # {} /\ @ # NULL THEN "DONE" ELSE @,
            !.sc = IF caps.clk_scaling THEN @ - Cardinality(completed) ELSE @,
            !.g = ReleaseEach(done, @, r.in_use, state),
            !.out = Xor(@, completed),
            !.h = ScsiDone(@, done, completed)]

\* ufshcd_transfer_req_compl: the doorbell read and the completed set
CompletedReqs(doorbell, outstanding) == Xor(doorbell, outstanding)

\* ufshcd_send_command(hba, tag), host lock held
ufshcd_send_command(r, tag) ==
    [r EXCEPT !.out = @ \cup {tag},
              !.sc = IF caps.clk_scaling THEN @ + 1 ELSE @,
              !.h.sub = @ \cup {tag},
              !.h.dbsame = FALSE]

\* ------------------------------------------------------------------------
\* the state after ufshcd_init and a successful probe
\* ------------------------------------------------------------------------
\* the holds counted in active_reqs when a release is looked at alone
MaxHolds == 2

NoCaps == [clk_gating |-> FALSE, hibern8_gating |-> FALSE, clk_scaling |-> FALSE,
           broken_ocs_quirk |-> FALSE, dl_nac_quirk |-> FALSE,
           auto_hibern8 |-> FALSE]

IdleIntr == [pc |-> "idle", xfer |-> FALSE, retries |-> 0, completed |-> {}]
IdleDevCmd == [pc |-> "idle", tag |-> 0, snap |-> {}, err |-> "none", retries |-> 0]
IdleTm == [pc |-> "idle", slot |-> 0, fn |-> "none", arg |-> 0, err |-> "none",
           resp |-> "none"]
IdleAbort == [pc |-> "idle", poll_cnt |-> 0, err |-> "0"]
\* the clocks of hba->clk_list_head, in list order
NClks == 2
Clks == 1..NClks
\* entry holds the gear and the frequencies a running scale operation has
\* found at its call
NoEntry == [gear |-> "none", clk |-> <<>>]
IdleScaling == [pc |-> "idle", up |-> FALSE, gear |-> "high",
                clk |-> [k \in Clks |-> "high"], ret |-> "0", entry |-> NoEntry]
IdleEh == [pc |-> "idle", needs_reset |-> FALSE, err |-> "0", retries |-> 0,
           saved_err |-> {}, saved_uic_err |-> {}, err_handling |-> TRUE]
\* what one invocation of ufshcd_intr has seen so far: the fatal error bits, the
\* calls of queue_work that queued the recovery work, and whether an error
\* that needs recovery was found
NoErrorsSeen == [fatal |-> 0, queued |-> 0, seen |-> FALSE]
NoTmDesc == [fn |-> "none", arg |-> 0, resp |-> "none"]
\* the UIC command unit: idle, executing a command ("exec"), or changing the
\* power mode after the command was accepted ("pwr"); res is the result in
\* REG_UIC_COMMAND_ARG_2
IdleUicHw == [st |-> "idle", command |-> "none", res |-> "0"]
\* an issuer of link control commands with its struct uic_command (command,
\* cmd_active, done, the result bits of argument2), its completion
\* uic_async_done (async) and its locals ret and reenable_intr; was_enabled
\* is UIC_COMMAND_COMPL in REG_INTERRUPT_ENABLE when ufshcd_uic_pwr_ctrl began
IdleUic == [pc |-> "idle", command |-> "none", cmd_active |-> FALSE,
            done |-> FALSE, async |-> FALSE, result |-> "0", ret |-> "0",
            reenable_intr |-> FALSE, was_enabled |-> FALSE, timed_out |-> FALSE]
\* the issuers are named so that hba->active_uic_cmd and hba->uic_async_done
\* can point to one of them or be NULL
UicIssuerNames == <<"uic0", "uic1", "uic2", "uic3">>
UicIssuers == {UicIssuerNames[k] : k \in 1 .. NUicIssuers}

\* the task management issuers: the abort handler of each tag, and one more
\* caller of __ufshcd_issue_tm_cmd (a logical unit reset or a raw request)
RawIssuers == NTags .. (NTags + NRawIssuers - 1)
TmIssuers == Tags \cup RawIssuers

\* the part of the state that the specifications below start from with
\* other values than those left by the probe
ProbedHost == [cg |-> [state |-> CLKS_ON, active_reqs |-> 0, is_suspended |-> FALSE],
               state |-> UFSHCD_STATE_OPERATIONAL,
               in_use |-> {},
               tasks |-> {},
               active_uic_cmd |-> NULL,
               uic_async_done |-> NULL,
               holder |-> [pc |-> "idle"]]

InitFrom(c, versions, h0) ==
    /\ caps = c
    /\ ufs_version \in versions
    /\ tr_doorbell = {}
    /\ tm_doorbell = {}
    /\ intr_status = {}
    /\ utrd = [t \in Tags |-> PreparedDesc]
    /\ clocks_on = TRUE
    /\ outstanding_reqs = {}
    /\ lrb_in_use = h0.in_use
    /\ lrb_cmd = [t \in Tags |-> NULL]
    /\ lrb_command_type = [t \in Tags |-> UTP_CMD_TYPE_SCSI]
    /\ req_abort_skip = {}
    /\ dev_cmd_complete = NULL
    /\ clk_scaling_active_reqs = 0
    /\ clk_scaling_lock = [readers |-> 0, writer |-> FALSE]
    /\ host_lock = "free"
    /\ scsi_block_reqs_cnt = 0
    /\ outstanding_tasks = h0.tasks
    /\ tm_slots_in_use = h0.tasks
    /\ tm_condition = {}
    /\ utmrd = [s \in TmSlots |-> NoTmDesc]
    /\ clk_gating = h0.cg
    /\ gate_work = [pending |-> FALSE, pc |-> "idle", cancelled |-> FALSE]
    /\ ungate_work = [pending |-> FALSE, pc |-> "idle"]
    /\ irq_enabled = TRUE
    /\ ufshcd_state = h0.state
    /\ saved_err = {}
    /\ saved_uic_err = {}
    /\ force_reset = FALSE
    /\ uic_link_state = UIC_LINK_ACTIVE_STATE
    /\ pm_op_in_progress = FALSE
    /\ eh_work = [pending |-> FALSE, running |-> FALSE]
    /\ active_uic_cmd = h0.active_uic_cmd
    /\ uic_async_done = h0.uic_async_done
    /\ uic_error = {}
    /\ uic_error_code = {}
    /\ intr_enable = UFSHCD_UIC_MASK \cup UFSHCD_ENABLE_INTRS
    /\ upmcrs = PWR_OK
    /\ uic_hw = IdleUicHw
    /\ uic_cmd_mutex = NULL
    /\ uic_cmd = [i \in UicIssuers |-> IdleUic]
    /\ qc = [t \in Tags |-> "idle"]
    /\ devcmd = IdleDevCmd
    /\ intr = IdleIntr
    /\ tm = [i \in TmIssuers |-> IdleTm]
    /\ abort = [t \in Tags |-> IdleAbort]
    /\ holder = h0.holder
    /\ scaling = IdleScaling
    /\ eh = IdleEh
    /\ eh_host_reset = [pc |-> "idle", err |-> "SUCCESS"]
    /\ link_recovery = [pc |-> "idle", ret |-> "0"]
    /\ hist = [timeouts |-> 0,
               sub |-> {},
               blk |-> [t \in Tags |-> "free"],
               result |-> [t \in Tags |-> "none"],
               claims |-> [t \in Tags |-> 0],
               notified |-> [t \in Tags |-> 0],
               tmclaims |-> [s \in TmSlots |-> 0],
               devclr |-> {},
               dbsame |-> FALSE,
               inv |-> NoErrorsSeen,
               errinv |-> 0,
               ehbody |-> 0,
               raised |-> 0,
               newerr |-> FALSE,
               warn |-> FALSE,
               dispatched |-> {},
               atstart |-> {}]

InitHba(c, versions) == InitFrom(c, versions, ProbedHost)

Init == InitHba(NoCaps, {"V2"})

\* ------------------------------------------------------------------------
\* ufshcd_queuecommand for the command the block layer gave tag t
\* ------------------------------------------------------------------------
\* the slot is filled in and the descriptor prepared
QcFillSlot(t) ==
    /\ lrb_cmd' = [lrb_cmd EXCEPT ![t] = CMD]
    /\ lrb_command_type' = [lrb_command_type EXCEPT ![t] =
            IF ufs_version \in {"V10", "V11"} THEN UTP_CMD_TYPE_SCSI
            ELSE UTP_CMD_TYPE_UFS_STORAGE]
    /\ req_abort_skip' = req_abort_skip \ {t}
    /\ utrd' = [utrd EXCEPT ![t] = PreparedDesc]

\* down_read_trylock and the claim of the slot; a failed trylock or a slot in
\* use returns SCSI_MLQUEUE_HOST_BUSY and leaves everything as it was.
\* Without clock gating ufshcd_hold returns at once and the slot is filled in
\* the same step.
QcClaim(t) ==
    /\ qc[t] = "idle"
    /\ hist.blk[t] = "free"
    /\ scsi_block_reqs_cnt = 0
    /\ ~clk_scaling_lock.writer
    /\ LET r == TestAndSetBitLock(t, lrb_in_use) IN
        /\ ~r.old
        /\ lrb_in_use' = r.word
    /\ clk_scaling_lock' = [clk_scaling_lock EXCEPT !.readers = @ + 1]
    /\ hist' = [hist EXCEPT !.blk[t] = "queuing", !.claims[t] = @ + 1,
                            !.result[t] = "none", !.notified[t] = 0]
    /\ IF caps.clk_gating
       THEN /\ qc' = [qc EXCEPT ![t] = "hold"]
            /\ UNCHANGED <<lrb_cmd, lrb_command_type, req_abort_skip, utrd>>
       ELSE /\ qc' = [qc EXCEPT ![t] = "issue"]
            /\ QcFillSlot(t)
    /\ UNCHANGED <<cfgVars, resetVars, chanVars, tr_doorbell, outstanding_reqs,
                   dev_cmd_complete,
                   clk_scaling_active_reqs, intr_status, host_lock, devcmd, intr,
                   tmVars, gateVars, ehVars, uicVars, scaleVars>>

\* ufshcd_hold(hba, true) with clock gating, then the slot is filled in; a
\* hold that cannot be granted at once gives the slot back
QcHold(t) ==
    /\ qc[t] = "hold"
    /\ host_lock = "free"
    /\ LET h == ufshcd_hold(Gating, uic_link_state, TRUE) IN
        /\ SetGating(h.g)
        /\ IF h.rc = "OK"
           THEN /\ QcFillSlot(t)
                /\ qc' = [qc EXCEPT ![t] = "issue"]
                /\ UNCHANGED <<lrb_in_use, clk_scaling_lock, hist>>
           ELSE /\ lrb_in_use' = lrb_in_use \ {t}
                /\ clk_scaling_lock' = [clk_scaling_lock EXCEPT !.readers = @ - 1]
                /\ qc' = [qc EXCEPT ![t] = "idle"]
                /\ hist' = [hist EXCEPT !.blk[t] = "free", !.claims[t] = 0]
                /\ UNCHANGED <<lrb_cmd, lrb_command_type, req_abort_skip, utrd>>
    /\ UNCHANGED <<cfgVars, resetVars, chanVars, tr_doorbell, outstanding_reqs,
                   dev_cmd_complete,
                   clk_scaling_active_reqs, intr_status, host_lock, devcmd, intr,
                   tmVars, clocks_on, irq_enabled, holder, ehVars, uicVars, scaleVars>>

\* the exit of ufshcd_queuecommand through the label out
QcReturn(t) ==
    /\ clk_scaling_lock' = [clk_scaling_lock EXCEPT !.readers = @ - 1]
    /\ qc' = [qc EXCEPT ![t] = "idle"]

\* the label out_compl_cmd and the failure exits before it: the slot is given
\* back, the hold released, and the command completed when err is 0
OutComplCmd(r, t, err, host) ==
    LET r1 == [r EXCEPT !.cmd[t] = NULL,
                        !.in_use = @ \ {t},
                        !.g = ReleaseNow(@, r.in_use \ {t}, ufshcd_state),
                        !.h.claims[t] = 0,
                        !.h.blk[t] = "free"]
    IN  IF err = "none"
        THEN [r1 EXCEPT !.h.result[t] = host, !.h.notified[t] = @ + 1]
        ELSE [r1 EXCEPT !.h.result[t] = err]

\* ufshcd_map_sg (or the crypto preparation) fails
QcMapSgFail(t) ==
    /\ qc[t] = "issue"
    /\ host_lock = "free"
    /\ SetRing(OutComplCmd(Ring, t, "EIO", "none"))
    /\ QcReturn(t)
    /\ UNCHANGED <<cfgVars, resetVars, chanVars, tr_doorbell, utrd, lrb_command_type,
                   req_abort_skip, intr_status,
                   host_lock, devcmd, intr, tmVars, clocks_on, irq_enabled, holder,
                   ehVars, uicVars, scaleVars>>

\* a switch that rejects every command found in EH_SCHEDULED_FATAL as busy,
\* whoever sent it
SubmitOutcomeFatalAlwaysBusy(state, pm_op) ==
    CASE state \in {UFSHCD_STATE_OPERATIONAL,
                    UFSHCD_STATE_EH_SCHEDULED_NON_FATAL} ->
            [send |-> TRUE, err |-> "none", host |-> "none", force |-> FALSE]
      [] state \in {UFSHCD_STATE_EH_SCHEDULED_FATAL, UFSHCD_STATE_RESET} ->
            [send |-> FALSE, err |-> SCSI_MLQUEUE_HOST_BUSY, host |-> "none",
             force |-> FALSE]
      [] state = UFSHCD_STATE_ERROR ->
            [send |-> FALSE, err |-> "none", host |-> DID_ERROR, force |-> FALSE]
      [] OTHER ->
            [send |-> FALSE, err |-> "none", host |-> DID_BAD_TARGET, force |-> FALSE]

\* the switch on hba->ufshcd_state of ufshcd_queuecommand: whether the command
\* is sent, the value returned, the host byte set, and whether force_reset is
\* set
SubmitOutcome(state, pm_op) ==
    CASE state \in {UFSHCD_STATE_OPERATIONAL,
                    UFSHCD_STATE_EH_SCHEDULED_NON_FATAL} ->
            [send |-> TRUE, err |-> "none", host |-> "none", force |-> FALSE]
      [] state = UFSHCD_STATE_EH_SCHEDULED_FATAL /\ pm_op ->
            [send |-> FALSE, err |-> "none", host |-> DID_BAD_TARGET, force |-> TRUE]
      [] state \in {UFSHCD_STATE_EH_SCHEDULED_FATAL, UFSHCD_STATE_RESET} ->
            [send |-> FALSE, err |-> SCSI_MLQUEUE_HOST_BUSY, host |-> "none",
             force |-> FALSE]
      [] state = UFSHCD_STATE_ERROR ->
            [send |-> FALSE, err |-> "none", host |-> DID_ERROR, force |-> FALSE]
      [] OTHER ->
            [send |-> FALSE, err |-> "none", host |-> DID_BAD_TARGET, force |-> FALSE]

\* the switch under the host lock, then either ufshcd_send_command or the
\* label out_compl_cmd
QcIssue(t) ==
    /\ qc[t] = "issue"
    /\ host_lock = "free"
    /\ QcReturn(t)
    /\ LET o == SubmitOutcome(ufshcd_state, pm_op_in_progress) IN
        /\ force_reset' = (force_reset \/ o.force)
        /\ IF o.send
           THEN /\ SetRing([ufshcd_send_command(Ring, t) EXCEPT
                        !.h.blk[t] = IF @ = "queuing_done" THEN "free" ELSE "owned"])
                /\ tr_doorbell' = tr_doorbell \cup {t}
           ELSE /\ SetRing(OutComplCmd(Ring, t, o.err, o.host))
                /\ UNCHANGED tr_doorbell
    /\ UNCHANGED <<cfgVars, resetVars, chanVars, utrd, lrb_command_type,
                   req_abort_skip, intr_status, host_lock, devcmd,
                   intr, tmVars, clocks_on, irq_enabled, holder, ufshcd_state,
                   saved_err, saved_uic_err, uic_link_state, pm_op_in_progress,
                   eh_work, eh, uicVars, scaleVars>>

\* ------------------------------------------------------------------------
\* the device
\* ------------------------------------------------------------------------
\* the device finishes the command of slot t: it writes the response and the
\* overall status, clears the doorbell bit and raises the completion interrupt
DeviceCompletesIn(descs) ==
    \E t \in tr_doorbell, d \in descs :
        /\ clocks_on
        /\ tr_doorbell' = tr_doorbell \ {t}
        /\ utrd' = [utrd EXCEPT ![t] = d]
        /\ intr_status' = intr_status \cup {UTP_TRANSFER_REQ_COMPL}
        /\ hist' = [hist EXCEPT !.devclr =
                                     IF lrb_cmd[t] # NULL /\ t \in hist.sub
                                     THEN @ \cup {t} ELSE @,
                                 !.dbsame = FALSE]
        /\ UNCHANGED <<cfgVars, resetVars, chanVars, outstanding_reqs, lrb_in_use,
                       lrb_cmd,
                       lrb_command_type, req_abort_skip, dev_cmd_complete, clk_scaling_active_reqs,
                       clk_scaling_lock, host_lock, qc, devcmd, intr, tmVars,
                       gateVars, ehVars, uicVars, scaleVars>>

DeviceCompletes == DeviceCompletesIn(OneDesc)

\* ------------------------------------------------------------------------
\* error detection in the interrupt handler
\* ------------------------------------------------------------------------
\* what ufshcd_check_errors and ufshcd_schedule_eh_work read and write
EhState == [state |-> ufshcd_state, saved_err |-> saved_err,
            saved_uic_err |-> saved_uic_err, force_reset |-> force_reset,
            link |-> uic_link_state, work |-> eh_work]

SetEhState(e) ==
    /\ ufshcd_state' = e.state
    /\ saved_err' = e.saved_err
    /\ saved_uic_err' = e.saved_uic_err
    /\ force_reset' = e.force_reset
    /\ uic_link_state' = e.link
    /\ eh_work' = e.work

ufshcd_is_saved_err_fatal(e) ==
    \/ UFSHCD_UIC_DL_PA_INIT_ERROR \in e.saved_uic_err
    \/ e.saved_err \cap (INT_FATAL_ERRORS \cup UFSHCD_UIC_HIBERN8_MASK) # {}

\* queue_work: sets the pending bit unless it is already set
QueueWork(w) == [w EXCEPT !.pending = TRUE]

\* a scheduling that does not look at the link state
ScheduleEhWorkLinkIgnored(e) ==
    IF e.state # UFSHCD_STATE_ERROR
    THEN [e EXCEPT !.state = IF \/ e.force_reset
                                \/ ufshcd_is_saved_err_fatal(e)
                             THEN UFSHCD_STATE_EH_SCHEDULED_FATAL
                             ELSE UFSHCD_STATE_EH_SCHEDULED_NON_FATAL,
                   !.work = QueueWork(@)]
    ELSE e

\* a scheduling that does not test the run state first
ScheduleEhWorkInAnyState(e) ==
    [e EXCEPT !.state = IF \/ e.force_reset
                           \/ e.link = UIC_LINK_BROKEN_STATE
                           \/ ufshcd_is_saved_err_fatal(e)
                        THEN UFSHCD_STATE_EH_SCHEDULED_FATAL
                        ELSE UFSHCD_STATE_EH_SCHEDULED_NON_FATAL,
              !.work = QueueWork(@)]

ufshcd_schedule_eh_work(e) ==
    IF e.state # UFSHCD_STATE_ERROR
    THEN [e EXCEPT !.state = IF \/ e.force_reset
                                \/ e.link = UIC_LINK_BROKEN_STATE
                                \/ ufshcd_is_saved_err_fatal(e)
                             THEN UFSHCD_STATE_EH_SCHEDULED_FATAL
                             ELSE UFSHCD_STATE_EH_SCHEDULED_NON_FATAL,
                   !.work = QueueWork(@)]
    ELSE e

\* ufshcd_update_uic_error: the bits of hba->uic_error for the error codes
\* read from the registers
ufshcd_update_uic_error(codes) ==
    {c \in codes : \/ c \in {UFSHCD_UIC_DL_PA_INIT_ERROR, UFSHCD_UIC_NL_ERROR}
                   \/ c = UFSHCD_UIC_DL_NAC_RECEIVED_ERROR /\ caps.dl_nac_quirk}

\* hba->uic_error after ufshcd_check_errors for the error bits in errors
UicErrorAfter(errors) ==
    IF UIC_ERROR \in errors THEN ufshcd_update_uic_error(uic_error_code)
    ELSE uic_error

\* ufshcd_is_auto_hibern8_error for the interrupts st
ufshcd_is_auto_hibern8_error(st) ==
    /\ caps.auto_hibern8
    /\ st \cap UFSHCD_UIC_HIBERN8_MASK # {}
    /\ ~(/\ active_uic_cmd # NULL
         /\ uic_cmd[active_uic_cmd].command \in {UIC_CMD_DME_HIBER_ENTER,
                                                   UIC_CMD_DME_HIBER_EXIT})

\* ufshcd_check_errors with hba->errors = errors
ufshcd_check_errors(e, errors) ==
    LET ue == UicErrorAfter(errors)
        h8 == errors \cap UFSHCD_UIC_HIBERN8_MASK # {}
        queue_eh_work == \/ errors \cap INT_FATAL_ERRORS # {}
                         \/ UIC_ERROR \in errors /\ ue # {}
                         \/ h8
    IN  IF queue_eh_work
        THEN ufshcd_schedule_eh_work(
                 [e EXCEPT !.saved_err = @ \cup errors,
                           !.saved_uic_err = @ \cup ue,
                           !.link = IF h8 THEN UIC_LINK_BROKEN_STATE ELSE @])
        ELSE e

\* ------------------------------------------------------------------------
\* ufshcd_intr
\* ------------------------------------------------------------------------
\* the interrupts ufshcd_intr passes on to ufshcd_sl_intr
EnabledIntrStatus == intr_status \cap intr_enable

\* the history after one round of the loop of ufshcd_intr; first says that the
\* round is the first of its invocation
RoundHist(h, first) ==
    LET errors == EnabledIntrStatus \cap UFSHCD_ERROR_MASK
        fatal == errors \cap INT_FATAL_ERRORS
        found == fatal # {} \/ (UIC_ERROR \in errors /\ UicErrorAfter(errors) # {})
        queued == /\ ~eh_work.pending
                  /\ errors # {}
                  /\ ufshcd_check_errors(EhState, errors).work.pending
        was == IF first THEN NoErrorsSeen ELSE h.inv
    IN  [h EXCEPT !.inv = [fatal |-> was.fatal + Cardinality(fatal),
                           queued |-> was.queued + (IF queued THEN 1 ELSE 0),
                           seen |-> was.seen \/ found],
                  !.errinv = IF found /\ ~was.seen THEN @ + 1 ELSE @,
                  !.newerr = @ \/ errors # {}]

\* argument2 |= ufshcd_get_uic_cmd_result: the result bits after the or
OrResult(old, new) == IF old = "0" THEN new ELSE old

\* ufshcd_uic_cmd_compl for the interrupts st: the commands of the issuers
\* after it
ufshcd_uic_cmd_compl(c, st) ==
    LET a == active_uic_cmd
        c1 == IF UIC_COMMAND_COMPL \in st /\ a # NULL
              THEN [c EXCEPT ![a].result = OrResult(@, uic_hw.res),
                             ![a].cmd_active = IF uic_async_done = NULL
                                               THEN FALSE ELSE @,
                             ![a].done = TRUE]
              ELSE c
        c2 == IF st \cap UFSHCD_UIC_PWR_MASK # {} /\ uic_async_done # NULL
              THEN [c1 EXCEPT ![uic_async_done].async = TRUE]
              ELSE c1
    IN  IF st \cap UFSHCD_UIC_PWR_MASK # {} /\ uic_async_done # NULL /\ a # NULL
        THEN [c2 EXCEPT ![a].cmd_active = FALSE]
        ELSE c2

\* hba->errors as ufshcd_sl_intr computes it from the interrupts st
SlIntrErrors(st) ==
    (st \cap UFSHCD_ERROR_MASK)
        \cup (IF ufshcd_is_auto_hibern8_error(st)
              THEN st \cap UFSHCD_UIC_HIBERN8_MASK ELSE {})

\* one round of the loop of ufshcd_intr up to the doorbell read: the status
\* bits just read are written back to clear them, then ufshcd_sl_intr checks
\* the errors, the link control commands and the task management completions
IntrRound ==
    /\ LET errors == SlIntrErrors(EnabledIntrStatus) IN
        /\ intr_status' = {}
        /\ uic_error' = UicErrorAfter(errors)
        /\ uic_error_code' = IF UIC_ERROR \in errors THEN {} ELSE uic_error_code
        /\ SetEhState(IF errors # {} THEN ufshcd_check_errors(EhState, errors)
                      ELSE EhState)
    /\ uic_cmd' = ufshcd_uic_cmd_compl(uic_cmd, EnabledIntrStatus)
    /\ tm_condition' = IF UTP_TASK_REQ_COMPL \in EnabledIntrStatus
                       THEN Xor(tm_doorbell, outstanding_tasks)
                       ELSE tm_condition

\* the interrupt is taken: the host lock, the read of the status and the
\* first round
IntrEnter ==
    /\ intr.pc = "idle"
    /\ host_lock = "free"
    /\ irq_enabled
    /\ EnabledIntrStatus # {}
    /\ host_lock' = "intr"
    /\ IntrRound
    /\ intr' = [pc |-> "doorbell",
                xfer |-> UTP_TRANSFER_REQ_COMPL \in EnabledIntrStatus,
                retries |-> NTags - 1, completed |-> {}]
    /\ hist' = RoundHist(hist, TRUE)
    /\ UNCHANGED <<cfgVars, resetVars, intr_enable, upmcrs, uic_hw, uic_cmd_mutex,
                   ringVars,
                   clk_scaling_lock, qc, devcmd,
                   tm_doorbell, outstanding_tasks, tm_slots_in_use, utmrd, tm, abort,
                   gateVars, pm_op_in_progress, eh, active_uic_cmd, uic_async_done,
                   scaleVars>>

\* ufshcd_transfer_req_compl reads the doorbell and computes the completed set
IntrReadDoorbell ==
    /\ intr.pc = "doorbell"
    /\ intr' = [intr EXCEPT !.pc = "compl",
                            !.completed =
                                IF intr.xfer
                                THEN CompletedReqs(tr_doorbell, outstanding_reqs)
                                ELSE {}]
    /\ hist' = [hist EXCEPT !.dbsame = @ \/ intr.xfer]
    /\ UNCHANGED <<cfgVars, resetVars, chanVars, ringVars, intr_status,
                   clk_scaling_lock, host_lock, qc,
                   devcmd, tmVars, gateVars, ehVars, uicVars, scaleVars>>

\* a loop that goes on for as long as a status bit is set
IntrLoopUnbounded(status, retries) == status # {}

\* while (intr_status && retries--)
IntrLoopGoesOn(status, retries) == status # {} /\ retries > 0

\* the pass over the completed set, then the status is read again: the loop
\* goes on with the next round while a status bit is set and the retries are
\* not used up, otherwise the handler drops the lock and returns
IntrCompl ==
    /\ intr.pc = "compl"
    /\ LET r == [Ring EXCEPT !.h = IF IntrLoopGoesOn(intr_status, intr.retries)
                                    THEN RoundHist(@, FALSE) ELSE @]
       IN  SetRing(IF intr.completed # {}
                   THEN __ufshcd_transfer_req_compl(r, intr.completed, ufshcd_state)
                   ELSE r)
    /\ IF IntrLoopGoesOn(intr_status, intr.retries)
       THEN /\ IntrRound
            /\ intr' = [pc |-> "doorbell",
                        xfer |-> UTP_TRANSFER_REQ_COMPL \in EnabledIntrStatus,
                        retries |-> intr.retries - 1, completed |-> {}]
            /\ UNCHANGED host_lock
       ELSE /\ intr' = IdleIntr
            /\ host_lock' = "free"
            /\ UNCHANGED <<intr_status, uic_error, uic_error_code, ufshcd_state,
                           saved_err, saved_uic_err, force_reset, uic_link_state,
                           eh_work, tm_condition, uic_cmd>>
    /\ UNCHANGED <<cfgVars, resetVars, intr_enable, upmcrs, uic_hw, uic_cmd_mutex,
                   tr_doorbell,
                   utrd, lrb_command_type, req_abort_skip,
                   clk_scaling_lock, qc, devcmd, tm_doorbell, outstanding_tasks,
                   tm_slots_in_use, utmrd, tm, abort, clocks_on, irq_enabled,
                   holder, pm_op_in_progress, eh, active_uic_cmd, uic_async_done,
                   scaleVars>>

\* ------------------------------------------------------------------------
\* ufshcd_exec_dev_cmd: one device management command (a NOP OUT) at a time,
\* its callers hold hba->dev_cmd.lock
\* ------------------------------------------------------------------------
\* down_read(&hba->clk_scaling_lock), then ufshcd_get_dev_cmd_tag reads
\* lrb_in_use and finds the last free slot; with no free slot the caller sleeps.
\* The call comes from a caller of its own, or from the loop of
\* ufshcd_verify_dev_init (nop)
DevBegin ==
    /\ devcmd.pc \in {"idle", "nop"}
    /\ ~clk_scaling_lock.writer
    /\ clk_scaling_lock' = [clk_scaling_lock EXCEPT !.readers = @ + 1]
    /\ devcmd' = IF FindLastFree(lrb_in_use) < NTags
                 THEN [devcmd EXCEPT !.pc = "tas", !.tag = FindLastFree(lrb_in_use),
                                     !.err = "none"]
                 ELSE [devcmd EXCEPT !.pc = "get_tag", !.err = "none"]
    /\ UNCHANGED <<cfgVars, resetVars, chanVars, ringVars, intr_status, host_lock,
                   qc, intr, tmVars,
                   gateVars, ehVars, uicVars, scaleVars, hist>>

\* ufshcd_get_dev_cmd_tag is tried again after a wake-up or a lost race
DevTagRead ==
    /\ devcmd.pc = "get_tag"
    /\ FindLastFree(lrb_in_use) < NTags
    /\ devcmd' = [devcmd EXCEPT !.pc = "tas", !.tag = FindLastFree(lrb_in_use)]
    /\ UNCHANGED <<cfgVars, resetVars, chanVars, ringVars, intr_status,
                   clk_scaling_lock, host_lock, qc,
                   intr, tmVars, gateVars, ehVars, uicVars, scaleVars, hist>>

\* test_and_set_bit_lock on the slot found; the search starts again when the
\* slot was taken meanwhile
DevTagTas ==
    /\ devcmd.pc = "tas"
    /\ LET r == TestAndSetBitLock(devcmd.tag, lrb_in_use) IN
        IF r.old
        THEN /\ devcmd' = [devcmd EXCEPT !.pc = "get_tag", !.tag = 0]
             /\ UNCHANGED <<lrb_in_use, hist>>
        ELSE /\ devcmd' = [devcmd EXCEPT !.pc = "send"]
             /\ lrb_in_use' = r.word
             /\ hist' = [hist EXCEPT !.claims[devcmd.tag] = @ + 1]
    /\ UNCHANGED <<cfgVars, resetVars, chanVars, tr_doorbell, utrd, outstanding_reqs,
                   lrb_cmd,
                   lrb_command_type, req_abort_skip, dev_cmd_complete, clk_scaling_active_reqs,
                   intr_status, clk_scaling_lock, host_lock, qc, intr, tmVars,
                   gateVars, ehVars, uicVars, scaleVars>>

\* ufshcd_compose_dev_cmd, hba->dev_cmd.complete = &wait, and
\* ufshcd_send_command under the host lock
DevSend ==
    /\ devcmd.pc = "send"
    /\ host_lock = "free"
    /\ LET t == devcmd.tag
           r == [Ring EXCEPT !.cmd[t] = NULL, !.complete = "WAIT",
                             !.h.result[t] = "none"]
       IN  /\ SetRing(ufshcd_send_command(r, t))
           /\ lrb_command_type' = [lrb_command_type EXCEPT ![t] =
                   IF ufs_version \in {"V10", "V11"} THEN UTP_CMD_TYPE_DEV_MANAGE
                   ELSE UTP_CMD_TYPE_UFS_STORAGE]
           /\ utrd' = [utrd EXCEPT ![t] = PreparedDesc]
           /\ tr_doorbell' = tr_doorbell \cup {t}
    /\ devcmd' = [devcmd EXCEPT !.pc = "wait"]
    /\ UNCHANGED <<cfgVars, resetVars, chanVars, req_abort_skip, intr_status,
                   clk_scaling_lock, host_lock,
                   qc, intr, tmVars, clocks_on, irq_enabled, holder, ehVars, uicVars,
                   scaleVars>>

\* ufshcd_dev_cmd_completion for a NOP OUT: the response must be a NOP IN
ufshcd_dev_cmd_completion(rsp) ==
    CASE rsp = UPIU_TRANSACTION_NOP_IN -> "0"
      [] rsp = UPIU_TRANSACTION_REJECT_UPIU -> "EPERM"
      [] OTHER -> "EINVAL"

\* what ufshcd_wait_for_dev_cmd returns for a command that completed in time
\* with the descriptor d: the overall status when it is not success, else the
\* result of ufshcd_dev_cmd_completion
DevCmdResult(d) ==
    IF d.ocs # OCS_SUCCESS THEN d.ocs ELSE ufshcd_dev_cmd_completion(d.rsp)

\* the exit of ufshcd_exec_dev_cmd: ufshcd_put_dev_cmd_tag and up_read; err
\* is returned to the loop of ufshcd_verify_dev_init when the call came from it
DevPut(timedout, err) ==
    /\ lrb_in_use' = lrb_in_use \ {devcmd.tag}
    /\ clk_scaling_lock' = [clk_scaling_lock EXCEPT !.readers = @ - 1]
    /\ devcmd' = IF devcmd.retries > 0
                 THEN [IdleDevCmd EXCEPT !.pc = "ret", !.err = err,
                                         !.retries = devcmd.retries]
                 ELSE IdleDevCmd
    /\ hist' = [hist EXCEPT !.claims[devcmd.tag] = 0,
                            !.sub = IF timedout THEN @ \ {devcmd.tag} ELSE @]

\* ufshcd_wait_for_dev_cmd, the completion arrived in time: the result is
\* read under the host lock and the slot given back
DevWaitDone ==
    /\ devcmd.pc = "wait"
    /\ dev_cmd_complete = "DONE"
    /\ host_lock = "free"
    /\ dev_cmd_complete' = NULL
    /\ DevPut(FALSE, DevCmdResult(utrd[devcmd.tag]))
    /\ UNCHANGED <<cfgVars, resetVars, chanVars, tr_doorbell, utrd, outstanding_reqs,
                   lrb_cmd,
                   lrb_command_type, req_abort_skip, clk_scaling_active_reqs, intr_status,
                   host_lock, qc, intr, tmVars, gateVars, ehVars,
                   uicVars, scaleVars>>

\* wait_for_completion_timeout returns 0; hba->dev_cmd.complete = NULL under
\* the host lock
DevTimeout ==
    /\ devcmd.pc = "wait"
    /\ dev_cmd_complete = "WAIT"
    /\ host_lock = "free"
    /\ hist.timeouts < MaxDevTimeouts
    /\ hist' = [hist EXCEPT !.timeouts = @ + 1]
    /\ dev_cmd_complete' = NULL
    /\ devcmd' = [devcmd EXCEPT !.pc = "clear"]
    /\ UNCHANGED <<cfgVars, resetVars, chanVars, tr_doorbell, utrd, outstanding_reqs,
                   lrb_in_use, lrb_cmd,
                   lrb_command_type, req_abort_skip, clk_scaling_active_reqs, intr_status,
                   clk_scaling_lock, host_lock, qc, intr, tmVars, gateVars, ehVars,
                   uicVars, scaleVars>>

\* ufshcd_clear_cmd: the controller is asked to clear the slot; cleared says
\* whether the doorbell bit went away within the second the driver waits.
\* Then ufshcd_outstanding_req_clear runs without the host lock: __clear_bit
\* loads the word here ...
DevClearCmd(cleared) ==
    /\ devcmd.pc = "clear"
    /\ host_lock = "free"
    /\ ~cleared => devcmd.tag \in tr_doorbell
    /\ tr_doorbell' = IF cleared THEN tr_doorbell \ {devcmd.tag} ELSE tr_doorbell
    /\ devcmd' = [devcmd EXCEPT !.pc = "clr_write",
                                !.snap = outstanding_reqs,
                                !.err = IF cleared THEN "EAGAIN" ELSE "ETIMEDOUT"]
    /\ hist' = [hist EXCEPT !.dbsame = @ /\ tr_doorbell' = tr_doorbell]
    /\ UNCHANGED <<cfgVars, resetVars, chanVars, utrd, outstanding_reqs, lrb_in_use,
                   lrb_cmd,
                   lrb_command_type, req_abort_skip, dev_cmd_complete, clk_scaling_active_reqs,
                   intr_status, clk_scaling_lock, host_lock, qc, intr, tmVars,
                   gateVars, ehVars, uicVars, scaleVars>>

\* ... and stores it with the bit cleared; then the slot is given back
DevClrWrite ==
    /\ devcmd.pc = "clr_write"
    /\ outstanding_reqs' = devcmd.snap \ {devcmd.tag}
    /\ DevPut(TRUE, devcmd.err)
    /\ UNCHANGED <<cfgVars, resetVars, chanVars, tr_doorbell, utrd, lrb_cmd,
                   lrb_command_type, req_abort_skip,
                   dev_cmd_complete, clk_scaling_active_reqs, intr_status,
                   host_lock, qc, intr, tmVars, gateVars, ehVars,
                   uicVars, scaleVars>>

\* a loop that sends the NOP OUT again after every failure
NopLoopRetriesAfterTimeout(err, retries) == err # "0" /\ retries - 1 > 0

\* the loop of ufshcd_verify_dev_init after ufshcd_exec_dev_cmd has returned
\* err with retries left at the start of the round: success and -ETIMEDOUT
\* leave the loop, any other result counts the round and goes on while
\* retries remain
NopLoopGoesOn(err, retries) == err \notin {"0", "ETIMEDOUT"} /\ retries - 1 > 0

\* ufshcd_verify_dev_init is called with the dev_cmd.lock free: the first
\* round of the loop
VerifyDevInit ==
    /\ devcmd.pc = "idle"
    /\ devcmd' = [devcmd EXCEPT !.pc = "nop", !.retries = NOP_OUT_RETRIES]
    /\ UNCHANGED <<cfgVars, resetVars, chanVars, ringVars, intr_status,
                   clk_scaling_lock, host_lock, qc, intr, tmVars, gateVars, ehVars,
                   uicVars, scaleVars, hist>>

\* ufshcd_exec_dev_cmd has returned to the loop, which goes on or ends
VerifyDevInitLoop ==
    /\ devcmd.pc = "ret"
    /\ devcmd' = IF NopLoopGoesOn(devcmd.err, devcmd.retries)
                 THEN [devcmd EXCEPT !.pc = "nop", !.retries = @ - 1]
                 ELSE IdleDevCmd
    /\ UNCHANGED <<cfgVars, resetVars, chanVars, ringVars, intr_status,
                   clk_scaling_lock, host_lock, qc, intr, tmVars, gateVars, ehVars,
                   uicVars, scaleVars, hist>>

\* ------------------------------------------------------------------------
\* __ufshcd_issue_tm_cmd for issuer i; its caller has put the function and
\* its argument into tm[i]
\* ------------------------------------------------------------------------
\* find_first_zero_bit(&tm_slots_in_use, nutmrs); NTmSlots when none is free
FindFirstFree(in_use) ==
    IF TmSlots \ in_use = {} THEN NTmSlots ELSE Min(TmSlots \ in_use)

\* the caller's call of ufshcd_issue_tm_cmd
TmCall(fn, arg) == [IdleTm EXCEPT !.pc = "get_slot", !.fn = fn, !.arg = arg]

\* ufshcd_get_tm_free_slot reads tm_slots_in_use; with no free slot the
\* caller sleeps
TmSlotRead(i) ==
    /\ tm[i].pc = "get_slot"
    /\ FindFirstFree(tm_slots_in_use) < NTmSlots
    /\ tm' = [tm EXCEPT ![i].pc = "tas", ![i].slot = FindFirstFree(tm_slots_in_use)]
    /\ UNCHANGED <<cfgVars, resetVars, chanVars, ringVars, intr_status,
                   clk_scaling_lock, host_lock, qc,
                   devcmd, intr, tm_doorbell, outstanding_tasks, tm_slots_in_use,
                   tm_condition, utmrd, abort, gateVars, ehVars, uicVars, scaleVars,
                   hist>>

\* test_and_set_bit_lock on the slot found
TmSlotTas(i) ==
    /\ tm[i].pc = "tas"
    /\ LET r == TestAndSetBitLock(tm[i].slot, tm_slots_in_use) IN
        IF r.old
        THEN /\ tm' = [tm EXCEPT ![i].pc = "get_slot", ![i].slot = 0]
             /\ UNCHANGED <<tm_slots_in_use, hist>>
        ELSE /\ tm' = [tm EXCEPT ![i].pc = IF caps.clk_gating THEN "hold" ELSE "send"]
             /\ tm_slots_in_use' = r.word
             /\ hist' = [hist EXCEPT !.tmclaims[tm[i].slot] = @ + 1]
    /\ UNCHANGED <<cfgVars, resetVars, chanVars, ringVars, intr_status,
                   clk_scaling_lock, host_lock, qc,
                   devcmd, intr, tm_doorbell, outstanding_tasks, tm_condition, utmrd,
                   abort, gateVars, ehVars, uicVars, scaleVars>>

\* the request is copied into the slot, the outstanding bit set and the task
\* doorbell rung under the host lock
TmSend(i) ==
    /\ tm[i].pc = "send"
    /\ host_lock = "free"
    /\ LET s == tm[i].slot IN
        /\ utmrd' = [utmrd EXCEPT ![s] = [fn |-> tm[i].fn, arg |-> tm[i].arg,
                                          resp |-> "none"]]
        /\ outstanding_tasks' = outstanding_tasks \cup {s}
        /\ tm_doorbell' = tm_doorbell \cup {s}
    /\ tm' = [tm EXCEPT ![i].pc = "wait"]
    /\ UNCHANGED <<cfgVars, resetVars, chanVars, ringVars, intr_status,
                   clk_scaling_lock, host_lock, qc,
                   devcmd, intr, tm_slots_in_use, tm_condition, abort, gateVars,
                   ehVars, uicVars, scaleVars, hist>>

\* the end of __ufshcd_issue_tm_cmd: the outstanding bit is cleared under the
\* host lock, then the condition bit, the slot is given back and the hold
\* released
TmFinish(i, err, resp) ==
    /\ outstanding_tasks' = outstanding_tasks \ {tm[i].slot}
    /\ tm_condition' = tm_condition \ {tm[i].slot}
    /\ tm_slots_in_use' = tm_slots_in_use \ {tm[i].slot}
    /\ tm' = [tm EXCEPT ![i].pc = "done", ![i].slot = 0, ![i].err = err,
                        ![i].resp = resp]
    /\ hist' = [hist EXCEPT !.tmclaims[tm[i].slot] = 0]
    /\ SetGating(__ufshcd_release(Gating, lrb_in_use,
                                  outstanding_tasks \ {tm[i].slot}, ufshcd_state,
                                  UicBusy))

\* wait_event_timeout saw the bit of the slot in tm_condition: the response
\* is copied from the slot
TmWaitDone(i) ==
    /\ tm[i].pc = "wait"
    /\ tm[i].slot \in tm_condition
    /\ host_lock = "free"
    /\ TmFinish(i, "0", utmrd[tm[i].slot].resp)
    /\ UNCHANGED <<cfgVars, resetVars, chanVars, ringVars, intr_status,
                   clk_scaling_lock, host_lock, qc,
                   devcmd, intr, tm_doorbell, utmrd, abort, clocks_on, irq_enabled,
                   holder, ehVars, uicVars, scaleVars>>

\* a timeout that reports a successful clear as the device management path
\* does, with a value of its own
TmTimeoutErrByClear(cleared) == IF cleared THEN "EAGAIN" ELSE "ETIMEDOUT"

\* what __ufshcd_issue_tm_cmd returns after wait_event_timeout has timed out:
\* the result of ufshcd_clear_tm_cmd (cleared) is reported by dev_WARN only
TmTimeoutErr(cleared) == "ETIMEDOUT"

\* wait_event_timeout timed out: ufshcd_clear_tm_cmd asks the controller to
\* clear the slot; cleared says whether the doorbell bit went away in time
TmTimeout(i, cleared) ==
    /\ tm[i].pc = "wait"
    /\ tm[i].slot \notin tm_condition
    /\ host_lock = "free"
    /\ ~cleared => tm[i].slot \in tm_doorbell
    /\ tm_doorbell' = IF cleared /\ tm[i].slot \in outstanding_tasks
                      THEN tm_doorbell \ {tm[i].slot} ELSE tm_doorbell
    /\ TmFinish(i, TmTimeoutErr(cleared), "none")
    /\ UNCHANGED <<cfgVars, resetVars, chanVars, ringVars, intr_status,
                   clk_scaling_lock, host_lock, qc,
                   devcmd, intr, utmrd, abort, clocks_on, irq_enabled,
                   holder, ehVars, uicVars, scaleVars>>

\* the device answers the task management request of slot s
DeviceCompletesTm ==
    \E s \in tm_doorbell :
      \E resp \in IF utmrd[s].fn = UFS_QUERY_TASK /\ utmrd[s].arg \in tr_doorbell
                  THEN {UPIU_TASK_MANAGEMENT_FUNC_SUCCEEDED,
                        UPIU_TASK_MANAGEMENT_FUNC_COMPL}
                  ELSE {UPIU_TASK_MANAGEMENT_FUNC_COMPL} :
        /\ clocks_on
        /\ tm_doorbell' = tm_doorbell \ {s}
        /\ utmrd' = [utmrd EXCEPT ![s].resp = resp]
        /\ intr_status' = intr_status \cup {UTP_TASK_REQ_COMPL}
        /\ UNCHANGED <<cfgVars, resetVars, chanVars, ringVars, clk_scaling_lock,
                       host_lock, qc, devcmd,
                       intr, outstanding_tasks, tm_slots_in_use, tm_condition, tm,
                       abort, gateVars, ehVars, uicVars, scaleVars, hist>>

\* where a blocking caller of ufshcd_hold goes after the switch: on with
\* its work (next) when the hold was granted, or to one of the two calls of
\* flush_work
AfterHold(rc, next) ==
    CASE rc = "OK" -> next
      [] rc = "FLUSH_ON" -> "flush_on"
      [] OTHER -> "flush"

\* the call of flush_work in the case CLKS_ON: with the ungate work queued
\* or running it waits like the other call, after which the caller goes
\* back to start whatever is_suspended says
UngateWorkBusy == ungate_work.pending \/ ungate_work.pc # "idle"

AfterFlushCall == IF UngateWorkBusy THEN "flush" ELSE "flushed"

\* is_suspended is read after flush_work has returned false
AfterFlushFalse(next) == IF clk_gating.is_suspended THEN next ELSE "rehold"

\* ufshcd_hold(hba, false) of __ufshcd_issue_tm_cmd with clock gating: the
\* first pass counts the request, a later pass re-enters at the label start
TmHold(i) ==
    /\ tm[i].pc \in {"hold", "rehold"}
    /\ host_lock = "free"
    /\ LET h == IF tm[i].pc = "hold"
                THEN ufshcd_hold(Gating, uic_link_state, FALSE)
                ELSE HoldSwitch(Gating, uic_link_state, FALSE)
       IN  /\ SetGating(h.g)
           /\ tm' = [tm EXCEPT ![i].pc = AfterHold(h.rc, "send")]
    /\ UNCHANGED <<cfgVars, resetVars, chanVars, ringVars, intr_status,
                   clk_scaling_lock, host_lock, qc,
                   devcmd, intr, tm_doorbell, outstanding_tasks, tm_slots_in_use,
                   tm_condition, utmrd, abort, clocks_on, irq_enabled, holder,
                   ehVars, uicVars, scaleVars, hist>>

\* flush_work(&ungate_work) of the case CLKS_ON is called: it waits when the
\* work is queued or running, and returns false at once when it is not
TmFlushOn(i) ==
    /\ tm[i].pc = "flush_on"
    /\ tm' = [tm EXCEPT ![i].pc = AfterFlushCall]
    /\ UNCHANGED <<cfgVars, resetVars, chanVars, ringVars, intr_status,
                   clk_scaling_lock, host_lock, qc,
                   devcmd, intr, tm_doorbell, outstanding_tasks, tm_slots_in_use,
                   tm_condition, utmrd, abort, gateVars, ehVars, uicVars, scaleVars,
                   hist>>

\* flush_work returned false: with is_suspended set ufshcd_hold returns 0
\* through the label out, without the lock; else it goes back to start
TmFlushed(i) ==
    /\ tm[i].pc = "flushed"
    /\ tm' = [tm EXCEPT ![i].pc = AfterFlushFalse("send")]
    /\ UNCHANGED <<cfgVars, resetVars, chanVars, ringVars, intr_status,
                   clk_scaling_lock, host_lock, qc,
                   devcmd, intr, tm_doorbell, outstanding_tasks, tm_slots_in_use,
                   tm_condition, utmrd, abort, gateVars, ehVars, uicVars, scaleVars,
                   hist>>

\* flush_work(&ungate_work) returns when the work is neither queued nor
\* running
TmFlush(i) ==
    /\ tm[i].pc = "flush"
    /\ ~ungate_work.pending
    /\ ungate_work.pc = "idle"
    /\ tm' = [tm EXCEPT ![i].pc = "rehold"]
    /\ UNCHANGED <<cfgVars, resetVars, chanVars, ringVars, intr_status,
                   clk_scaling_lock, host_lock, qc,
                   devcmd, intr, tm_doorbell, outstanding_tasks, tm_slots_in_use,
                   tm_condition, utmrd, abort, gateVars, ehVars, uicVars, scaleVars,
                   hist>>

IssueTm(i) == \/ TmSlotRead(i) \/ TmSlotTas(i) \/ TmSend(i) \/ TmWaitDone(i)
              \/ (\E cleared \in BOOLEAN : TmTimeout(i, cleared))

\* ufshcd_exec_raw_upiu_cmd with a task management request: caller i sends a
\* logical unit reset through __ufshcd_issue_tm_cmd
RawTmCall(i) ==
    /\ tm[i].pc = "idle"
    /\ tm' = [tm EXCEPT ![i] = TmCall(UFS_LOGICAL_RESET, 0)]
    /\ UNCHANGED <<cfgVars, resetVars, chanVars, ringVars, intr_status,
                   clk_scaling_lock, host_lock, qc,
                   devcmd, intr, tm_doorbell, outstanding_tasks, tm_slots_in_use,
                   tm_condition, utmrd, abort, gateVars, ehVars, uicVars, scaleVars,
                   hist>>

RawTmReturn(i) ==
    /\ tm[i].pc = "done"
    /\ tm' = [tm EXCEPT ![i] = IdleTm]
    /\ UNCHANGED <<cfgVars, resetVars, chanVars, ringVars, intr_status,
                   clk_scaling_lock, host_lock, qc,
                   devcmd, intr, tm_doorbell, outstanding_tasks, tm_slots_in_use,
                   tm_condition, utmrd, abort, gateVars, ehVars, uicVars, scaleVars,
                   hist>>

RawTm == \E i \in RawIssuers : RawTmCall(i) \/ IssueTm(i) \/ RawTmReturn(i)

\* ------------------------------------------------------------------------
\* ufshcd_abort(cmd) for the command of tag t.  The SCSI error handling
\* calls it for a command it has timed out, one command at a time, and
\* keeps the tag until the handler has returned; the task management
\* commands of the handler are those of issuer t.
\* ------------------------------------------------------------------------
AbortFail(t, err) == [abort EXCEPT ![t].pc = "out", ![t].err = err]

\* entry up to the first task management command: the hold, the unlocked
\* test of the outstanding bit and the test of req_abort_skip
AbortStart(t) ==
    /\ \A u \in Tags : abort[u].pc = "idle"
    /\ hist.blk[t] = "owned"
    /\ tm[t].pc = "idle"
    /\ host_lock = "free"
    /\ LET h == ufshcd_hold(Gating, uic_link_state, FALSE) IN
        /\ h.rc = "OK"
        /\ SetGating(h.g)
    /\ hist' = [hist EXCEPT !.blk[t] = "eh"]
    /\ IF t \notin outstanding_reqs
       THEN /\ abort' = AbortFail(t, "0")
            /\ UNCHANGED tm
       ELSE IF t \in req_abort_skip
       THEN /\ abort' = AbortFail(t, "EIO")
            /\ UNCHANGED tm
       ELSE /\ abort' = [abort EXCEPT ![t].pc = "query",
                                      ![t].poll_cnt = AbortPollCnt]
            /\ tm' = [tm EXCEPT ![t] = TmCall(UFS_QUERY_TASK, t)]
    /\ UNCHANGED <<cfgVars, resetVars, chanVars, ringVars, intr_status,
                   clk_scaling_lock, host_lock, qc,
                   devcmd, intr, tm_doorbell, outstanding_tasks, tm_slots_in_use,
                   tm_condition, utmrd, clocks_on, irq_enabled, holder, ehVars,
                   uicVars, scaleVars>>

\* one round of the poll loop after ufshcd_issue_tm_cmd(UFS_QUERY_TASK) has
\* returned
AbortQueryDone(t) ==
    /\ abort[t].pc = "query"
    /\ tm[t].pc = "done"
    /\ IF tm[t].err = "0" /\ tm[t].resp = UPIU_TASK_MANAGEMENT_FUNC_SUCCEEDED
       THEN /\ abort' = [abort EXCEPT ![t].pc = "abort_task"]
            /\ tm' = [tm EXCEPT ![t] = TmCall(UFS_ABORT_TASK, t)]
       ELSE IF tm[t].err = "0" /\ tm[t].resp = UPIU_TASK_MANAGEMENT_FUNC_COMPL
       THEN IF t \in tr_doorbell
            THEN IF abort[t].poll_cnt = 1
                 THEN /\ abort' = AbortFail(t, "EBUSY")
                      /\ tm' = [tm EXCEPT ![t] = IdleTm]
                 ELSE /\ abort' = [abort EXCEPT ![t].poll_cnt = @ - 1]
                      /\ tm' = [tm EXCEPT ![t] = TmCall(UFS_QUERY_TASK, t)]
            ELSE /\ abort' = [abort EXCEPT ![t].pc = "cleanup"]
                 /\ tm' = [tm EXCEPT ![t] = IdleTm]
       ELSE /\ abort' = AbortFail(t, IF tm[t].err = "0" THEN "resp" ELSE tm[t].err)
            /\ tm' = [tm EXCEPT ![t] = IdleTm]
    /\ UNCHANGED <<cfgVars, resetVars, chanVars, ringVars, intr_status,
                   clk_scaling_lock, host_lock, qc,
                   devcmd, intr, tm_doorbell, outstanding_tasks, tm_slots_in_use,
                   tm_condition, utmrd, gateVars, ehVars, uicVars, scaleVars, hist>>

\* after ufshcd_issue_tm_cmd(UFS_ABORT_TASK) has returned
AbortTaskDone(t) ==
    /\ abort[t].pc = "abort_task"
    /\ tm[t].pc = "done"
    /\ abort' = IF tm[t].err # "0"
                THEN AbortFail(t, tm[t].err)
                ELSE IF tm[t].resp # UPIU_TASK_MANAGEMENT_FUNC_COMPL
                THEN AbortFail(t, "resp")
                ELSE [abort EXCEPT ![t].pc = "clear"]
    /\ tm' = [tm EXCEPT ![t] = IdleTm]
    /\ UNCHANGED <<cfgVars, resetVars, chanVars, ringVars, intr_status,
                   clk_scaling_lock, host_lock, qc,
                   devcmd, intr, tm_doorbell, outstanding_tasks, tm_slots_in_use,
                   tm_condition, utmrd, gateVars, ehVars, uicVars, scaleVars, hist>>

\* ufshcd_clear_cmd: the slot is cleared in the controller; cleared says
\* whether the doorbell bit went away within the wait
AbortClearCmd(t, cleared) ==
    /\ abort[t].pc = "clear"
    /\ host_lock = "free"
    /\ ~cleared => t \in tr_doorbell
    /\ tr_doorbell' = IF cleared THEN tr_doorbell \ {t} ELSE tr_doorbell
    /\ abort' = IF cleared THEN [abort EXCEPT ![t].pc = "cleanup"]
                ELSE AbortFail(t, "ETIMEDOUT")
    /\ hist' = [hist EXCEPT !.dbsame = @ /\ tr_doorbell' = tr_doorbell]
    /\ UNCHANGED <<cfgVars, resetVars, chanVars, utrd, outstanding_reqs, lrb_in_use,
                   lrb_cmd,
                   lrb_command_type, req_abort_skip, dev_cmd_complete,
                   clk_scaling_active_reqs, intr_status, clk_scaling_lock,
                   host_lock, qc, devcmd, intr, tm_doorbell, outstanding_tasks,
                   tm_slots_in_use, tm_condition, utmrd, tm, gateVars, ehVars,
                   uicVars, scaleVars>>

\* the label cleanup: __ufshcd_transfer_req_compl(hba, 1UL << tag) under the
\* host lock
AbortCleanup(t) ==
    /\ abort[t].pc = "cleanup"
    /\ host_lock = "free"
    /\ SetRing(__ufshcd_transfer_req_compl(Ring, {t}, ufshcd_state))
    /\ abort' = AbortFail(t, "0")
    /\ UNCHANGED <<cfgVars, resetVars, chanVars, tr_doorbell, utrd, lrb_command_type,
                   req_abort_skip,
                   intr_status, clk_scaling_lock, host_lock, qc, devcmd, intr,
                   tm_doorbell, outstanding_tasks, tm_slots_in_use, tm_condition,
                   utmrd, tm, clocks_on, irq_enabled, holder, ehVars, uicVars,
                   scaleVars>>

\* the label out: a failure marks every outstanding request to be skipped,
\* the hold is released; on SUCCESS the error handling finishes the command
\* and its tag is free again
AbortOut(t) ==
    /\ abort[t].pc = "out"
    /\ host_lock = "free"
    /\ req_abort_skip' = IF abort[t].err = "0" THEN req_abort_skip
                         ELSE req_abort_skip \cup outstanding_reqs
    /\ SetGating(ReleaseNow(Gating, lrb_in_use, ufshcd_state))
    /\ abort' = [abort EXCEPT ![t] = IdleAbort]
    /\ hist' = [hist EXCEPT !.blk[t] = IF abort[t].err = "0" THEN "free"
                                       ELSE "eh_failed"]
    /\ UNCHANGED <<cfgVars, resetVars, chanVars, tr_doorbell, utrd, outstanding_reqs,
                   lrb_in_use,
                   lrb_cmd, lrb_command_type, dev_cmd_complete,
                   clk_scaling_active_reqs, intr_status, clk_scaling_lock,
                   host_lock, qc, devcmd, intr, tm_doorbell, outstanding_tasks,
                   tm_slots_in_use, tm_condition, utmrd, tm, clocks_on,
                   irq_enabled, holder, ehVars, uicVars, scaleVars>>

Abort(t) == \/ AbortStart(t) \/ AbortQueryDone(t) \/ AbortTaskDone(t)
            \/ (\E cleared \in BOOLEAN : AbortClearCmd(t, cleared))
            \/ AbortCleanup(t) \/ AbortOut(t) \/ IssueTm(t)

\* ------------------------------------------------------------------------
\* ufshcd_gate_work, the delayed work queued by __ufshcd_release
\* ------------------------------------------------------------------------
\* the delay has run out: the workqueue takes the work off its queue and
\* calls the handler
GateWorkRun ==
    /\ gate_work.pending
    /\ gate_work.pc = "idle"
    /\ gate_work' = [gate_work EXCEPT !.pending = FALSE, !.pc = "check"]
    /\ UNCHANGED <<cfgVars, resetVars, chanVars, ringVars, intr_status,
                   clk_scaling_lock, host_lock, qc,
                   devcmd, intr, tmVars, clk_gating, gateRestVars, ehVars, uicVars,
                   scaleVars, hist>>

\* the tests of ufshcd_gate_work under the host lock
GateWorkMayGate ==
    /\ clk_gating.active_reqs = 0
    /\ ufshcd_state = UFSHCD_STATE_OPERATIONAL
    /\ lrb_in_use = {}
    /\ outstanding_tasks = {}
    /\ ~UicBusy

\* the tests of ufshcd_gate_work without the early exit on CLKS_OFF
GateWorkCheckOffNotTested ==
    /\ gate_work.pc = "check"
    /\ host_lock = "free"
    /\ IF clk_gating.is_suspended \/ clk_gating.state # REQ_CLKS_OFF
       THEN /\ gate_work' = [gate_work EXCEPT !.pc = "idle"]
            /\ clk_gating' = [clk_gating EXCEPT !.state = CLKS_ON]
       ELSE /\ gate_work' = [gate_work EXCEPT !.pc = IF GateWorkMayGate
                                                      THEN "gate" ELSE "idle"]
            /\ UNCHANGED clk_gating
    /\ UNCHANGED <<cfgVars, resetVars, chanVars, ringVars, intr_status,
                   clk_scaling_lock, host_lock, qc,
                   devcmd, intr, tmVars, gateRestVars, ehVars, uicVars, scaleVars,
                   hist>>

GateWorkCheck ==
    /\ gate_work.pc = "check"
    /\ host_lock = "free"
    /\ IF clk_gating.state = CLKS_OFF
       THEN /\ gate_work' = [gate_work EXCEPT !.pc = "idle"]
            /\ UNCHANGED clk_gating
       ELSE IF clk_gating.is_suspended \/ clk_gating.state # REQ_CLKS_OFF
       THEN /\ gate_work' = [gate_work EXCEPT !.pc = "idle"]
            /\ clk_gating' = [clk_gating EXCEPT !.state = CLKS_ON]
       ELSE /\ gate_work' = [gate_work EXCEPT !.pc = IF GateWorkMayGate
                                                      THEN "gate" ELSE "idle"]
            /\ UNCHANGED clk_gating
    /\ UNCHANGED <<cfgVars, resetVars, chanVars, ringVars, intr_status,
                   clk_scaling_lock, host_lock, qc,
                   devcmd, intr, tmVars, gateRestVars, ehVars, uicVars, scaleVars,
                   hist>>

\* without the lock: the link enters hibern8 when that is allowed (ok says
\* whether ufshcd_uic_hibern8_enter succeeded), the interrupt is disabled and
\* the clocks are turned off
GateWorkClocksOff(ok) ==
    /\ gate_work.pc = "gate"
    /\ ok \/ caps.hibern8_gating
    /\ IF ~ok
       THEN /\ clk_gating' = [clk_gating EXCEPT !.state = CLKS_ON]
            /\ gate_work' = [gate_work EXCEPT !.pc = "idle"]
            /\ UNCHANGED <<uic_link_state, irq_enabled, clocks_on>>
       ELSE /\ uic_link_state' = IF caps.hibern8_gating THEN UIC_LINK_HIBERN8_STATE
                                 ELSE uic_link_state
            /\ irq_enabled' = FALSE
            /\ clocks_on' = FALSE
            /\ gate_work' = [gate_work EXCEPT !.pc = "finish"]
            /\ UNCHANGED clk_gating
    /\ UNCHANGED <<cfgVars, resetVars, chanVars, ringVars, intr_status,
                   clk_scaling_lock, host_lock, qc,
                   devcmd, intr, tmVars, ungate_work, scsi_block_reqs_cnt, holder,
                   ufshcd_state, saved_err, saved_uic_err, force_reset,
                   pm_op_in_progress, eh_work, eh, uicVars, scaleVars, hist>>

\* under the host lock again: CLKS_OFF unless a hold has asked for the
\* clocks meanwhile
GateWorkFinish ==
    /\ gate_work.pc = "finish"
    /\ host_lock = "free"
    /\ clk_gating' = IF clk_gating.state = REQ_CLKS_OFF
                     THEN [clk_gating EXCEPT !.state = CLKS_OFF]
                     ELSE clk_gating
    /\ gate_work' = [gate_work EXCEPT !.pc = "idle"]
    /\ UNCHANGED <<cfgVars, resetVars, chanVars, ringVars, intr_status,
                   clk_scaling_lock, host_lock, qc,
                   devcmd, intr, tmVars, gateRestVars, ehVars, uicVars, scaleVars,
                   hist>>

GateWork == \/ GateWorkRun \/ GateWorkCheck
            \/ (\E ok \in BOOLEAN : GateWorkClocksOff(ok))
            \/ GateWorkFinish

\* ------------------------------------------------------------------------
\* ufshcd_ungate_work, queued by ufshcd_hold
\* ------------------------------------------------------------------------
UngateWorkRun ==
    /\ ungate_work.pending
    /\ ungate_work.pc = "idle"
    /\ ungate_work' = [pending |-> FALSE, pc |-> "cancel"]
    /\ UNCHANGED <<cfgVars, resetVars, chanVars, ringVars, intr_status,
                   clk_scaling_lock, host_lock, qc,
                   devcmd, intr, tmVars, releaseVars, clocks_on, irq_enabled,
                   scsi_block_reqs_cnt, holder, ehVars, uicVars, scaleVars, hist>>

\* cancel_delayed_work_sync(&gate_work) waits for a running gate work; then
\* with the clocks on already only the requests are unblocked
UngateWorkCancel ==
    /\ ungate_work.pc = "cancel"
    /\ gate_work.pc = "idle"
    /\ host_lock = "free"
    /\ gate_work' = [gate_work EXCEPT !.pending = FALSE]
    /\ IF clk_gating.state = CLKS_ON
       THEN /\ ungate_work' = [ungate_work EXCEPT !.pc = "idle"]
            /\ scsi_block_reqs_cnt' = scsi_block_reqs_cnt - 1
       ELSE /\ ungate_work' = [ungate_work EXCEPT !.pc = "on"]
            /\ UNCHANGED scsi_block_reqs_cnt
    /\ UNCHANGED <<cfgVars, resetVars, chanVars, ringVars, intr_status,
                   clk_scaling_lock, host_lock, qc,
                   devcmd, intr, tmVars, clk_gating, clocks_on, irq_enabled, holder,
                   ehVars, uicVars, scaleVars, hist>>

\* ufshcd_setup_clocks(hba, true), which sets CLKS_ON under the host lock when
\* the clocks came on (ok), and ufshcd_enable_irq
UngateWorkClocksOn(ok) ==
    /\ ungate_work.pc = "on"
    /\ host_lock = "free"
    /\ clocks_on' = (clocks_on \/ ok)
    /\ irq_enabled' = TRUE
    /\ clk_gating' = [clk_gating EXCEPT
                        !.state = IF ok THEN CLKS_ON ELSE @,
                        !.is_suspended = IF caps.hibern8_gating THEN TRUE ELSE @]
    /\ IF caps.hibern8_gating
       THEN /\ ungate_work' = [ungate_work EXCEPT !.pc = "exit_h8"]
            /\ UNCHANGED scsi_block_reqs_cnt
       ELSE /\ ungate_work' = [ungate_work EXCEPT !.pc = "idle"]
            /\ scsi_block_reqs_cnt' = scsi_block_reqs_cnt - 1
    /\ UNCHANGED <<cfgVars, resetVars, chanVars, ringVars, intr_status,
                   clk_scaling_lock, host_lock, qc,
                   devcmd, intr, tmVars, gate_work, holder, ehVars, uicVars,
                   scaleVars, hist>>

\* the exit from hibern8 (ok says whether ufshcd_uic_hibern8_exit succeeded),
\* is_suspended is cleared and the requests are unblocked
UngateWorkExitHibern8(ok) ==
    /\ ungate_work.pc = "exit_h8"
    /\ uic_link_state' = IF uic_link_state = UIC_LINK_HIBERN8_STATE /\ ok
                         THEN UIC_LINK_ACTIVE_STATE ELSE uic_link_state
    /\ ok \/ uic_link_state = UIC_LINK_HIBERN8_STATE
    /\ clk_gating' = [clk_gating EXCEPT !.is_suspended = FALSE]
    /\ ungate_work' = [ungate_work EXCEPT !.pc = "idle"]
    /\ scsi_block_reqs_cnt' = scsi_block_reqs_cnt - 1
    /\ UNCHANGED <<cfgVars, resetVars, chanVars, ringVars, intr_status,
                   clk_scaling_lock, host_lock, qc,
                   devcmd, intr, tmVars, gate_work, clocks_on, irq_enabled, holder,
                   ufshcd_state, saved_err, saved_uic_err, force_reset,
                   pm_op_in_progress, eh_work, eh, uicVars, scaleVars, hist>>

UngateWork == \/ UngateWorkRun \/ UngateWorkCancel
              \/ (\E ok \in BOOLEAN : UngateWorkClocksOn(ok))
              \/ (\E ok \in BOOLEAN : UngateWorkExitHibern8(ok))

\* ------------------------------------------------------------------------
\* ufshcd_suspend and ufshcd_resume, called by the power management core
\* for a power level whose link state is active or hibern8.  The core
\* suspends the host when no request is in progress and sends none until
\* the resume has returned; holder is the position of the two functions.
\* ------------------------------------------------------------------------
pmFixedVars == <<cfgVars, resetVars, chanVars, ringVars, intr_status,
                 clk_scaling_lock, host_lock, qc, devcmd, intr, tmVars, uicVars,
                 scaleVars, hist, ufshcd_state, saved_err, saved_uic_err,
                 force_reset, eh_work, eh>>

\* the link states a power level asks of ufshcd_suspend
PmLinkStates == {UIC_LINK_ACTIVE_STATE, UIC_LINK_HIBERN8_STATE}

\* no request is with the driver
HostIdle ==
    /\ \A t \in Tags : qc[t] = "idle"
    /\ lrb_in_use = {}
    /\ \A i \in TmIssuers : tm[i].pc = "idle"
    /\ devcmd.pc = "idle"

\* the host is neither suspended nor on its way into or out of suspend
HostActive == holder.pc = "idle"

SuspendBegin ==
    /\ HostActive
    /\ HostIdle
    /\ pm_op_in_progress' = TRUE
    /\ holder' = [holder EXCEPT !.pc = "hold"]
    /\ UNCHANGED <<pmFixedVars, releaseVars, ungate_work, clocks_on, irq_enabled,
                   scsi_block_reqs_cnt, uic_link_state>>

\* ufshcd_hold(hba, false) of ufshcd_suspend
SuspendHold ==
    /\ holder.pc \in {"hold", "rehold"}
    /\ host_lock = "free"
    /\ LET h == IF holder.pc = "hold"
                THEN ufshcd_hold(Gating, uic_link_state, FALSE)
                ELSE HoldSwitch(Gating, uic_link_state, FALSE)
       IN  /\ SetGating(h.g)
           /\ holder' = [holder EXCEPT !.pc = AfterHold(h.rc, "mark")]
    /\ UNCHANGED <<pmFixedVars, clocks_on, irq_enabled, uic_link_state,
                   pm_op_in_progress>>

\* the two calls of flush_work of that hold
SuspendFlush ==
    /\ holder.pc \in {"flush_on", "flushed", "flush"}
    /\ holder.pc = "flush" => ~UngateWorkBusy
    /\ holder' = [holder EXCEPT !.pc =
                       CASE holder.pc = "flush_on" -> AfterFlushCall
                         [] holder.pc = "flushed" -> AfterFlushFalse("mark")
                         [] OTHER -> "rehold"]
    /\ UNCHANGED <<pmFixedVars, releaseVars, ungate_work, clocks_on, irq_enabled,
                   scsi_block_reqs_cnt, uic_link_state, pm_op_in_progress>>

\* hba->clk_gating.is_suspended = true, written without the host lock
SuspendMark ==
    /\ holder.pc = "mark"
    /\ clk_gating' = [clk_gating EXCEPT !.is_suspended = TRUE]
    /\ holder' = [holder EXCEPT !.pc = "transition"]
    /\ UNCHANGED <<pmFixedVars, gate_work, ungate_work, clocks_on, irq_enabled,
                   scsi_block_reqs_cnt, uic_link_state, pm_op_in_progress>>

\* the device power mode and the link state are changed; req is the link
\* state asked for.  A failure (ok false), or a link that is not active when
\* the function gets here, leaves through the label enable_gating, which
\* clears is_suspended without the lock.
SuspendTransition(req, ok) ==
    /\ holder.pc = "transition"
    /\ IF ok /\ uic_link_state = UIC_LINK_ACTIVE_STATE
       THEN /\ uic_link_state' = req
            /\ holder' = [holder EXCEPT !.pc = "disable_clks"]
            /\ UNCHANGED clk_gating
       ELSE /\ clk_gating' = [clk_gating EXCEPT !.is_suspended = FALSE]
            /\ holder' = [holder EXCEPT !.pc = "release"]
            /\ UNCHANGED uic_link_state
    /\ UNCHANGED <<pmFixedVars, gate_work, ungate_work, clocks_on, irq_enabled,
                   scsi_block_reqs_cnt, pm_op_in_progress>>

\* the label disable_clks: ufshcd_vops_suspend (ok says whether it
\* succeeded), ufshcd_disable_irq, the clocks are turned off and CLKS_OFF is
\* written without the host lock; the hold of the suspend is kept.  On a
\* failure the link is made active again and the function leaves through
\* enable_gating.
SuspendDisableClks(ok) ==
    /\ holder.pc = "disable_clks"
    /\ IF ok
       THEN /\ irq_enabled' = FALSE
            /\ clocks_on' = FALSE
            /\ clk_gating' = [clk_gating EXCEPT !.state = CLKS_OFF]
            /\ pm_op_in_progress' = FALSE
            /\ holder' = [holder EXCEPT !.pc = "suspended"]
            /\ UNCHANGED uic_link_state
       ELSE /\ uic_link_state' = UIC_LINK_ACTIVE_STATE
            /\ clk_gating' = [clk_gating EXCEPT !.is_suspended = FALSE]
            /\ holder' = [holder EXCEPT !.pc = "release"]
            /\ UNCHANGED <<irq_enabled, clocks_on, pm_op_in_progress>>
    /\ UNCHANGED <<pmFixedVars, gate_work, ungate_work, scsi_block_reqs_cnt>>

\* ufshcd_release at the end of a failed suspend and of a successful resume
PmRelease ==
    /\ holder.pc = "release"
    /\ host_lock = "free"
    /\ SetGating(ReleaseNow(Gating, lrb_in_use, ufshcd_state))
    /\ pm_op_in_progress' = FALSE
    /\ holder' = [holder EXCEPT !.pc = "idle"]
    /\ UNCHANGED <<pmFixedVars, clocks_on, irq_enabled, uic_link_state>>

ResumeBegin ==
    /\ holder.pc = "suspended"
    /\ pm_op_in_progress' = TRUE
    /\ holder' = [holder EXCEPT !.pc = "clocks"]
    /\ UNCHANGED <<pmFixedVars, releaseVars, ungate_work, clocks_on, irq_enabled,
                   scsi_block_reqs_cnt, uic_link_state>>

\* ufshcd_setup_clocks(hba, true) of ufshcd_resume, which writes CLKS_ON
\* under the host lock when the clocks came on (ok), and ufshcd_enable_irq
ResumeClocksOn(ok) ==
    /\ holder.pc = "clocks"
    /\ host_lock = "free"
    /\ IF ok
       THEN /\ clocks_on' = TRUE
            /\ irq_enabled' = TRUE
            /\ clk_gating' = [clk_gating EXCEPT !.state = CLKS_ON]
            /\ holder' = [holder EXCEPT !.pc = "link"]
            /\ UNCHANGED pm_op_in_progress
       ELSE /\ pm_op_in_progress' = FALSE
            /\ holder' = [holder EXCEPT !.pc = "suspended"]
            /\ UNCHANGED <<clocks_on, irq_enabled, clk_gating>>
    /\ UNCHANGED <<pmFixedVars, gate_work, ungate_work, scsi_block_reqs_cnt,
                   uic_link_state>>

\* the link leaves hibern8 and the device is made active (ok says whether
\* that succeeded): is_suspended is cleared; on a failure the interrupt is
\* disabled, the clocks are turned off again and CLKS_OFF is written, all
\* without the host lock
ResumeLink(ok) ==
    /\ holder.pc = "link"
    /\ IF ok
       THEN /\ uic_link_state' = UIC_LINK_ACTIVE_STATE
            /\ clk_gating' = [clk_gating EXCEPT !.is_suspended = FALSE]
            /\ holder' = [holder EXCEPT !.pc = "release"]
            /\ UNCHANGED <<irq_enabled, clocks_on, pm_op_in_progress>>
       ELSE /\ irq_enabled' = FALSE
            /\ clocks_on' = FALSE
            /\ clk_gating' = [clk_gating EXCEPT !.state = CLKS_OFF]
            /\ pm_op_in_progress' = FALSE
            /\ holder' = [holder EXCEPT !.pc = "suspended"]
            /\ UNCHANGED uic_link_state
    /\ UNCHANGED <<pmFixedVars, gate_work, ungate_work, scsi_block_reqs_cnt>>

Suspend == \/ SuspendBegin \/ SuspendHold \/ SuspendFlush \/ SuspendMark
           \/ (\E req \in PmLinkStates, ok \in BOOLEAN : SuspendTransition(req, ok))
           \/ (\E ok \in BOOLEAN : SuspendDisableClks(ok))

Resume == \/ ResumeBegin
          \/ (\E ok \in BOOLEAN : ResumeClocksOn(ok))
          \/ (\E ok \in BOOLEAN : ResumeLink(ok))

\* ------------------------------------------------------------------------
\* ufshcd_devfreq_scale(hba, scale_up), called by ufshcd_devfreq_target when
\* the clocks are not at the frequency asked for
\* ------------------------------------------------------------------------
ScaleRest == <<cfgVars, resetVars, chanVars, ringVars, intr_status, host_lock, qc,
               devcmd, intr, tmVars,
               clocks_on, irq_enabled, holder, ehVars, uicVars, hist>>

\* the clock whose clk_set_rate fails in one walk of the list, 0 for none
ClkFails == 0..NClks

\* max_freq when scaling up, min_freq when scaling down
ClkTarget(scale_up) == IF scale_up THEN "high" ELSE "low"

\* the loop of ufshcd_set_clk_freq from clock k on: a clock that is at the
\* frequency asked for is skipped, and the first clk_set_rate that fails ends
\* the walk with the clocks before it changed
RECURSIVE SetClkFreqFrom(_, _, _, _)
SetClkFreqFrom(clk, scale_up, fail, k) ==
    IF k > NClks THEN [ret |-> "0", clk |-> clk]
    ELSE IF clk[k] = ClkTarget(scale_up)
    THEN SetClkFreqFrom(clk, scale_up, fail, k + 1)
    ELSE IF k = fail THEN [ret |-> "EIO", clk |-> clk]
    ELSE SetClkFreqFrom([clk EXCEPT ![k] = ClkTarget(scale_up)], scale_up, fail,
                        k + 1)

ufshcd_set_clk_freq(clk, scale_up, fail) == SetClkFreqFrom(clk, scale_up, fail, 1)

\* ufshcd_scale_clks: pre_ok and post_ok are the results of the two calls of
\* ufshcd_vops_clk_scale_notify; after a failed POST_CHANGE the frequencies
\* are set the other way and the result of that is not looked at
ufshcd_scale_clks(clk, scale_up, pre_ok, fail, post_ok, undo_fail) ==
    IF ~pre_ok THEN [ret |-> "EIO", clk |-> clk]
    ELSE LET set == ufshcd_set_clk_freq(clk, scale_up, fail) IN
         IF set.ret # "0" THEN set
         ELSE IF ~post_ok
         THEN [ret |-> "EIO",
               clk |-> ufshcd_set_clk_freq(set.clk, ~scale_up, undo_fail).clk]
         ELSE set

ufshcd_is_devfreq_scaling_required(clk, scale_up) ==
    \E k \in Clks : clk[k] # ClkTarget(scale_up)

\* the hold, then ufshcd_clock_scaling_prepare up to the wait for the
\* doorbells: down_write waits for the readers to leave, then the requests
\* are blocked
ScaleStart(up) ==
    /\ scaling.pc = "idle"
    /\ ufshcd_is_devfreq_scaling_required(scaling.clk, up)
    /\ host_lock = "free"
    /\ clk_scaling_lock.readers = 0
    /\ ~clk_scaling_lock.writer
    /\ LET h == ufshcd_hold(Gating, uic_link_state, FALSE) IN
        /\ h.rc = "OK"
        /\ SetGating([h.g EXCEPT !.blk = @ + 1])
    /\ clk_scaling_lock' = [clk_scaling_lock EXCEPT !.writer = TRUE]
    /\ scaling' = [scaling EXCEPT !.pc = "drain", !.up = up, !.ret = "0",
                                  !.entry = [gear |-> scaling.gear,
                                             clk |-> scaling.clk]]
    /\ UNCHANGED ScaleRest

\* the exit of ufshcd_devfreq_scale: ufshcd_clock_scaling_unprepare, unless
\* the prepare has failed and undone itself, and the release of the hold
ScaleOut(ret) ==
    /\ clk_scaling_lock' = [clk_scaling_lock EXCEPT !.writer = FALSE]
    /\ SetGating(ReleaseNow([Gating EXCEPT !.blk = @ - 1], lrb_in_use, ufshcd_state))
    /\ scaling' = [scaling EXCEPT !.pc = "idle", !.ret = ret, !.entry = NoEntry]

\* ufshcd_wait_for_doorbell_clr under the host lock: both doorbell registers
\* are read; timedout says whether the wait has run out of time
ScaleDrain(timedout) ==
    /\ scaling.pc = "drain"
    /\ host_lock = "free"
    /\ IF ufshcd_state # UFSHCD_STATE_OPERATIONAL
       THEN ScaleOut("EBUSY")
       ELSE IF tm_doorbell = {} /\ tr_doorbell = {}
       THEN /\ scaling' = [scaling EXCEPT !.pc = IF scaling.up THEN "clks"
                                                 ELSE "gear_down"]
            /\ UNCHANGED <<clk_scaling_lock, clk_gating, gate_work, ungate_work,
                           scsi_block_reqs_cnt>>
       ELSE /\ timedout
            /\ ScaleOut("EBUSY")
    /\ UNCHANGED ScaleRest

\* ufshcd_scale_gear(hba, false) before the clocks are scaled down
ScaleGearDown(ok) ==
    /\ scaling.pc = "gear_down"
    /\ scaling' = IF ok THEN [scaling EXCEPT !.pc = "clks", !.gear = "low"]
                  ELSE [scaling EXCEPT !.pc = "unprepare", !.ret = "EIO"]
    /\ UNCHANGED <<ScaleRest, clk_scaling_lock, clk_gating, gate_work, ungate_work,
                   scsi_block_reqs_cnt>>

\* ufshcd_scale_clks(hba, scale_up); a failure leaves through the label
\* scale_up_gear
ScaleClks(pre_ok, fail, post_ok, undo_fail) ==
    /\ scaling.pc = "clks"
    /\ LET r == ufshcd_scale_clks(scaling.clk, scaling.up, pre_ok, fail, post_ok,
                                  undo_fail)
       IN  scaling' = IF r.ret = "0"
                      THEN [scaling EXCEPT !.pc = IF scaling.up THEN "gear_up"
                                                  ELSE "wb",
                                           !.clk = r.clk]
                      ELSE [scaling EXCEPT !.pc = "scale_up_gear", !.ret = r.ret,
                                           !.clk = r.clk]
    /\ UNCHANGED <<ScaleRest, clk_scaling_lock, clk_gating, gate_work, ungate_work,
                   scsi_block_reqs_cnt>>

\* the label scale_up_gear: after a failed scale down ufshcd_scale_gear(hba,
\* true) puts the gear back, and its result is not looked at
ScaleUpGearLabel(ok) ==
    /\ scaling.pc = "scale_up_gear"
    /\ scaling' = [scaling EXCEPT !.pc = "unprepare",
                                  !.gear = IF ~scaling.up /\ ok THEN "high" ELSE @]
    /\ UNCHANGED <<ScaleRest, clk_scaling_lock, clk_gating, gate_work, ungate_work,
                   scsi_block_reqs_cnt>>

\* ufshcd_scale_gear(hba, true) after the clocks are scaled up
ScaleGearUp(ok) ==
    /\ scaling.pc = "gear_up"
    /\ scaling' = IF ok THEN [scaling EXCEPT !.pc = "wb", !.gear = "high"]
                  ELSE [scaling EXCEPT !.pc = "clks_undo", !.ret = "EIO"]
    /\ UNCHANGED <<ScaleRest, clk_scaling_lock, clk_gating, gate_work, ungate_work,
                   scsi_block_reqs_cnt>>

\* ufshcd_scale_clks(hba, false) after the gear could not be scaled up; its
\* result is not looked at
ScaleClksUndo(pre_ok, fail, post_ok, undo_fail) ==
    /\ scaling.pc = "clks_undo"
    /\ scaling' = [scaling EXCEPT
                       !.pc = "unprepare",
                       !.clk = ufshcd_scale_clks(scaling.clk, FALSE, pre_ok, fail,
                                                 post_ok, undo_fail).clk]
    /\ UNCHANGED <<ScaleRest, clk_scaling_lock, clk_gating, gate_work, ungate_work,
                   scsi_block_reqs_cnt>>

\* up_write before ufshcd_wb_ctrl
ScaleWbUnlock ==
    /\ scaling.pc = "wb"
    /\ clk_scaling_lock' = [clk_scaling_lock EXCEPT !.writer = FALSE]
    /\ scaling' = [scaling EXCEPT !.pc = "wb_relock"]
    /\ UNCHANGED <<ScaleRest, clk_gating, gate_work, ungate_work,
                   scsi_block_reqs_cnt>>

\* down_write after ufshcd_wb_ctrl
ScaleWbRelock ==
    /\ scaling.pc = "wb_relock"
    /\ clk_scaling_lock.readers = 0
    /\ clk_scaling_lock' = [clk_scaling_lock EXCEPT !.writer = TRUE]
    /\ scaling' = [scaling EXCEPT !.pc = "unprepare"]
    /\ UNCHANGED <<ScaleRest, clk_gating, gate_work, ungate_work,
                   scsi_block_reqs_cnt>>

\* the label clk_scaling_unprepare and the label out
ScaleUnprepare ==
    /\ scaling.pc = "unprepare"
    /\ host_lock = "free"
    /\ ScaleOut(scaling.ret)
    /\ UNCHANGED ScaleRest

\* fails are the clocks whose clk_set_rate may fail and notify the results the
\* POST_CHANGE notification of the variant may give
DevfreqScale(fails, notify) ==
    \/ (\E up \in BOOLEAN : ScaleStart(up))
    \/ (\E timedout \in BOOLEAN : ScaleDrain(timedout))
    \/ (\E ok \in BOOLEAN : ScaleGearDown(ok))
    \/ (\E pre_ok \in BOOLEAN, post_ok \in notify, fail, undo_fail \in fails :
            ScaleClks(pre_ok, fail, post_ok, undo_fail))
    \/ (\E ok \in BOOLEAN : ScaleUpGearLabel(ok))
    \/ (\E ok \in BOOLEAN : ScaleGearUp(ok))
    \/ (\E pre_ok \in BOOLEAN, post_ok \in notify, fail, undo_fail \in fails :
            ScaleClksUndo(pre_ok, fail, post_ok, undo_fail))
    \/ ScaleWbUnlock
    \/ ScaleWbRelock
    \/ ScaleUnprepare

\* ------------------------------------------------------------------------
\* ufshcd_err_handler, the work hba->eh_work on the ordered workqueue
\* hba->eh_wq, with ufshcd_reset_and_restore
\* ------------------------------------------------------------------------
\* the variables SetRing writes
ringSetVars == <<outstanding_reqs, lrb_in_use, lrb_cmd, dev_cmd_complete,
                 clk_scaling_active_reqs, clk_gating, gate_work, ungate_work,
                 scsi_block_reqs_cnt, hist>>
\* the variables no step of the error handler writes
ehRestVars == <<cfgVars, resetVars, chanVars, utrd, lrb_command_type, req_abort_skip,
                clk_scaling_lock,
                host_lock, qc, devcmd, intr, outstanding_tasks, tm_slots_in_use,
                utmrd, tm, abort, clocks_on, irq_enabled, holder,
                pm_op_in_progress, uicVars, scaleVars>>

\* the controller raises an error interrupt: a fatal error bit, or a UIC error
\* with its code in the error code register
ErrorKinds == {[bits |-> {DEVICE_FATAL_ERROR}, codes |-> {}],
               [bits |-> {CONTROLLER_FATAL_ERROR}, codes |-> {}],
               [bits |-> {UIC_ERROR}, codes |-> {UFSHCD_UIC_NL_ERROR}]}

DeviceRaisesErrorIn(kinds) ==
    \E k \in kinds :
        /\ hist.raised < MaxErrors
        /\ clocks_on
        /\ intr_status' = intr_status \cup k.bits
        /\ uic_error_code' = uic_error_code \cup k.codes
        /\ hist' = [hist EXCEPT !.raised = @ + 1, !.newerr = TRUE]
        /\ UNCHANGED <<cfgVars, resetVars, chanVars, ringVars, clk_scaling_lock,
                       host_lock, qc, devcmd, intr, tmVars, gateVars, ehVars,
                       active_uic_cmd, uic_async_done, uic_error, scaleVars>>

DeviceRaisesError == DeviceRaisesErrorIn(ErrorKinds)

\* the errors of the link: the fatal data link layer error PA_INIT, and the
\* failure of an automatic entry to hibern8
\* the DL NAC error, which the driver records only with
\* UFS_DEVICE_QUIRK_RECOVERY_FROM_DL_NAC_ERRORS
NacErrorKinds == {[bits |-> {UIC_ERROR}, codes |-> {UFSHCD_UIC_DL_NAC_RECEIVED_ERROR}]}

LinkErrorKinds == {[bits |-> {UIC_ERROR}, codes |-> {UFSHCD_UIC_DL_PA_INIT_ERROR}],
                   [bits |-> {UIC_HIBERNATE_ENTER}, codes |-> {}]}

\* ufshcd_suspend and ufshcd_resume set hba->pm_op_in_progress on entry and
\* clear it on exit; in between they send their commands through
\* ufshcd_queuecommand
PmOpBegin ==
    /\ ~pm_op_in_progress
    /\ pm_op_in_progress' = TRUE
    /\ UNCHANGED <<cfgVars, resetVars, chanVars, ringVars, intr_status,
                   clk_scaling_lock, host_lock, qc,
                   devcmd, intr, tmVars, gateVars, ufshcd_state, saved_err,
                   saved_uic_err, force_reset, uic_link_state, eh_work, eh,
                   uicVars, scaleVars, hist>>

PmOpEnd ==
    /\ pm_op_in_progress
    /\ pm_op_in_progress' = FALSE
    /\ UNCHANGED <<cfgVars, resetVars, chanVars, ringVars, intr_status,
                   clk_scaling_lock, host_lock, qc,
                   devcmd, intr, tmVars, gateVars, ufshcd_state, saved_err,
                   saved_uic_err, force_reset, uic_link_state, eh_work, eh,
                   uicVars, scaleVars, hist>>

ufshcd_err_handling_should_stop ==
    \/ ufshcd_state = UFSHCD_STATE_ERROR
    \/ ~(\/ saved_err # {}
         \/ saved_uic_err # {}
         \/ force_reset
         \/ uic_link_state = UIC_LINK_BROKEN_STATE)

\* the run state a stopping error handler leaves
StateAfterStop ==
    IF ufshcd_state # UFSHCD_STATE_ERROR THEN UFSHCD_STATE_OPERATIONAL
    ELSE ufshcd_state

\* an error handler that never finds that a reset is needed
NeverNeedsReset == FALSE

\* needs_reset as ufshcd_err_handler computes it from the saved errors
NeedsReset ==
    \/ force_reset
    \/ uic_link_state = UIC_LINK_BROKEN_STATE
    \/ ufshcd_is_saved_err_fatal(EhState)
    \/ /\ UIC_ERROR \in saved_err
       /\ UFSHCD_UIC_DL_NAC_RECEIVED_ERROR \in saved_uic_err

\* requests are left as they are
CompleteNothing(r, db, state) == r

\* ufshcd_complete_requests for the slot table r: ufshcd_transfer_req_compl
\* with the doorbell value db (ufshcd_tmc_handler is in the actions)
ufshcd_complete_requests(r, db, state) ==
    LET completed == CompletedReqs(db, r.out)
        r1 == [r EXCEPT !.h.dbsame = TRUE]
    IN  IF completed # {}
        THEN __ufshcd_transfer_req_compl(r1, completed, state)
        ELSE r1

\* before a reset the last slot is freed by force when every slot is
\* outstanding
FreeLastSlot(r, state) ==
    IF r.out = Tags
    THEN __ufshcd_transfer_req_compl(r, {NTags - 1}, state)
    ELSE r

\* the label out of ufshcd_err_handler with the run state st, then
\* ufshcd_scsi_unblock_requests and ufshcd_err_handling_unprepare
EhOut(r, st) ==
    /\ SetRing([r EXCEPT !.g = ReleaseNow([@ EXCEPT !.blk = @ - 1], r.in_use, st),
                         !.h.atstart = {}])
    /\ ufshcd_state' = st
    /\ eh' = IdleEh
    /\ eh_work' = [eh_work EXCEPT !.running = FALSE]

\* the workqueue takes the work: the pending bit is cleared before the
\* function is called; a work is never run twice at the same time
EhWorkStart ==
    /\ eh_work.pending
    /\ ~eh_work.running
    /\ eh_work' = [pending |-> FALSE, running |-> TRUE]
    /\ eh' = [IdleEh EXCEPT !.pc = "entry"]
    /\ UNCHANGED <<ehRestVars, ringSetVars, tr_doorbell, tm_doorbell, intr_status,
                   tm_condition, ufshcd_state, saved_err, saved_uic_err,
                   force_reset, uic_link_state>>

\* the first check under the host lock
EhEntry ==
    /\ eh.pc = "entry"
    /\ host_lock = "free"
    /\ IF ufshcd_err_handling_should_stop
       THEN /\ ufshcd_state' = StateAfterStop
            /\ eh' = IdleEh
            /\ eh_work' = [eh_work EXCEPT !.running = FALSE]
       ELSE /\ eh' = [eh EXCEPT !.pc = "begin"]
            /\ UNCHANGED <<ufshcd_state, eh_work>>
    /\ UNCHANGED <<ehRestVars, ringSetVars, tr_doorbell, tm_doorbell, intr_status,
                   tm_condition, saved_err, saved_uic_err, force_reset,
                   uic_link_state>>

\* ufshcd_err_handling_prepare, then under the host lock: requests are blocked,
\* the second check, the run state RESET, the requests the hardware has
\* cleared are completed; with UFS_DEVICE_QUIRK_RECOVERY_FROM_DL_NAC_ERRORS the
\* lock is released for ufshcd_quirk_dl_nac_errors, otherwise needs_reset is
\* computed; with needs_reset the handler goes on to the reset, otherwise to
\* the clearing of the pending requests
EhBegin ==
    /\ eh.pc = "begin"
    /\ host_lock = "free"
    /\ LET h == ufshcd_hold(Gating, uic_link_state, FALSE)
           r0 == [Ring EXCEPT !.g = [h.g EXCEPT !.blk = @ + 1]]
       IN  /\ h.rc = "OK"
           /\ IF ufshcd_err_handling_should_stop
              THEN /\ EhOut(r0, StateAfterStop)
                   /\ UNCHANGED <<force_reset, tm_condition>>
              ELSE LET r1 == ufshcd_complete_requests(
                                 [r0 EXCEPT !.h.ehbody = Min({@ + 1, MaxErrors + 1}),
                                            !.h.newerr = FALSE,
                                            !.h.atstart = r0.out],
                                 tr_doorbell, UFSHCD_STATE_RESET)
                       now == NeedsReset /\ ~caps.dl_nac_quirk
                   IN  /\ SetRing(IF now
                                  THEN FreeLastSlot(r1, UFSHCD_STATE_RESET)
                                  ELSE r1)
                       /\ ufshcd_state' = UFSHCD_STATE_RESET
                       /\ force_reset' = IF now THEN FALSE ELSE force_reset
                       /\ tm_condition' = Xor(tm_doorbell, outstanding_tasks)
                       /\ eh' = [eh EXCEPT !.pc = IF caps.dl_nac_quirk THEN "quirk"
                                                  ELSE IF NeedsReset THEN "reset"
                                                  ELSE "clear",
                                           !.needs_reset = now]
                       /\ UNCHANGED eh_work
    /\ UNCHANGED <<ehRestVars, tr_doorbell, tm_doorbell, intr_status, saved_err,
                   saved_uic_err, uic_link_state>>

\* ufshcd_quirk_dl_nac_errors up to its msleep: with a fatal error, or with no
\* DL NAC error, the error handling is required
EhQuirkCheck ==
    /\ eh.pc = "quirk"
    /\ host_lock = "free"
    /\ eh' = [eh EXCEPT !.pc = IF /\ saved_err \cap INT_FATAL_ERRORS = {}
                                  /\ UIC_ERROR \in saved_err
                                  /\ UFSHCD_UIC_DL_NAC_RECEIVED_ERROR \in saved_uic_err
                               THEN "quirk_slept" ELSE "quirk_done",
                        !.err_handling = TRUE]
    /\ UNCHANGED <<ehRestVars, ringSetVars, tr_doorbell, tm_doorbell, intr_status,
                   tm_condition, ufshcd_state, saved_err, saved_uic_err,
                   force_reset, uic_link_state, eh_work>>

\* after the msleep: with another error than the DL NAC error the error
\* handling is required, otherwise the NOP of ufshcd_verify_dev_init is sent
EhQuirkSlept ==
    /\ eh.pc = "quirk_slept"
    /\ host_lock = "free"
    /\ eh' = [eh EXCEPT !.pc = IF \/ saved_err \cap INT_FATAL_ERRORS # {}
                                  \/ /\ UIC_ERROR \in saved_err
                                     /\ saved_uic_err \
                                            {UFSHCD_UIC_DL_NAC_RECEIVED_ERROR} # {}
                               THEN "quirk_done" ELSE "quirk_nop"]
    /\ UNCHANGED <<ehRestVars, ringSetVars, tr_doorbell, tm_doorbell, intr_status,
                   tm_condition, ufshcd_state, saved_err, saved_uic_err,
                   force_reset, uic_link_state, eh_work>>

\* ufshcd_verify_dev_init has returned; alive says that the device answered
\* the NOP: then the DL NAC error is cleared, and the error handling is not
\* required when no other UIC error is saved
EhQuirkNop(alive) ==
    /\ eh.pc = "quirk_nop"
    /\ host_lock = "free"
    /\ saved_err' = IF alive /\ saved_uic_err = {UFSHCD_UIC_DL_NAC_RECEIVED_ERROR}
                    THEN saved_err \ {UIC_ERROR} ELSE saved_err
    /\ saved_uic_err' = IF alive
                        THEN saved_uic_err \ {UFSHCD_UIC_DL_NAC_RECEIVED_ERROR}
                        ELSE saved_uic_err
    /\ eh' = [eh EXCEPT !.pc = "quirk_done",
                        !.err_handling = ~alive \/ saved_uic_err' # {}]
    /\ UNCHANGED <<ehRestVars, ringSetVars, tr_doorbell, tm_doorbell, intr_status,
                   tm_condition, ufshcd_state, force_reset, uic_link_state,
                   eh_work>>

\* ufshcd_err_handler after ufshcd_quirk_dl_nac_errors: without error handling
\* required, forced reset and with the link active it leaves through
\* skip_err_handling; otherwise needs_reset is computed
EhAfterQuirk ==
    /\ eh.pc = "quirk_done"
    /\ host_lock = "free"
    /\ IF /\ ~eh.err_handling
          /\ ~force_reset
          /\ uic_link_state = UIC_LINK_ACTIVE_STATE
       THEN /\ EhOut(Ring, IF ufshcd_state = UFSHCD_STATE_RESET
                           THEN UFSHCD_STATE_OPERATIONAL ELSE ufshcd_state)
            /\ UNCHANGED force_reset
       ELSE /\ SetRing(IF NeedsReset THEN FreeLastSlot(Ring, ufshcd_state)
                       ELSE Ring)
            /\ force_reset' = IF NeedsReset THEN FALSE ELSE force_reset
            /\ eh' = [eh EXCEPT !.pc = IF NeedsReset THEN "reset" ELSE "clear",
                                !.needs_reset = NeedsReset]
            /\ UNCHANGED <<ufshcd_state, eh_work>>
    /\ UNCHANGED <<ehRestVars, tr_doorbell, tm_doorbell, intr_status,
                   tm_condition, saved_err, saved_uic_err, uic_link_state>>

\* the steps of the error handler that exist only with
\* UFS_DEVICE_QUIRK_RECOVERY_FROM_DL_NAC_ERRORS
QuirkDlNacErrors ==
    \/ EhQuirkCheck
    \/ EhQuirkSlept
    \/ (\E alive \in BOOLEAN : EhQuirkNop(alive))
    \/ EhAfterQuirk

\* the pending transfer and task management requests are cleared with
\* ufshcd_clear_cmd and ufshcd_clear_tm_cmd; ok says that the controller
\* cleared them all, otherwise the first clear failed
EhClearPending(ok) ==
    /\ eh.pc = "clear"
    /\ host_lock = "free"
    /\ ~ok => (outstanding_reqs \cup outstanding_tasks) # {}
    /\ tr_doorbell' = IF ok THEN tr_doorbell \ outstanding_reqs ELSE tr_doorbell
    /\ tm_doorbell' = IF ok THEN tm_doorbell \ outstanding_tasks ELSE tm_doorbell
    /\ eh' = [eh EXCEPT !.pc = "cleared", !.needs_reset = ~ok]
    /\ hist' = [hist EXCEPT !.dbsame = @ /\ tr_doorbell' = tr_doorbell]
    /\ UNCHANGED <<ehRestVars, outstanding_reqs, lrb_in_use, lrb_cmd,
                   dev_cmd_complete, clk_scaling_active_reqs, clk_gating, gate_work,
                   ungate_work, scsi_block_reqs_cnt, intr_status, tm_condition,
                   ufshcd_state, saved_err, saved_uic_err, force_reset,
                   uic_link_state, eh_work>>

\* the label lock_skip_pending_xfer_clear: the cleared requests are completed;
\* a failed clear needs the reset, otherwise the handler leaves through
\* skip_err_handling
EhAfterClear ==
    /\ eh.pc = "cleared"
    /\ host_lock = "free"
    /\ tm_condition' = Xor(tm_doorbell, outstanding_tasks)
    /\ LET r1 == ufshcd_complete_requests(Ring, tr_doorbell, ufshcd_state) IN
        IF eh.needs_reset
        THEN /\ SetRing(FreeLastSlot(r1, ufshcd_state))
             /\ force_reset' = FALSE
             /\ eh' = [eh EXCEPT !.pc = "reset"]
             /\ UNCHANGED <<ufshcd_state, eh_work>>
        ELSE /\ EhOut(r1, IF ufshcd_state = UFSHCD_STATE_RESET
                          THEN UFSHCD_STATE_OPERATIONAL ELSE ufshcd_state)
             /\ UNCHANGED force_reset
    /\ UNCHANGED <<ehRestVars, tr_doorbell, tm_doorbell, intr_status, saved_err,
                   saved_uic_err, uic_link_state>>

\* ufshcd_reset_and_restore caches the saved errors and clears them
EhResetStart ==
    /\ eh.pc = "reset"
    /\ host_lock = "free"
    /\ eh' = [eh EXCEPT !.pc = "attempt", !.retries = MAX_HOST_RESET_RETRIES,
                        !.saved_err = saved_err, !.saved_uic_err = saved_uic_err]
    /\ saved_err' = {}
    /\ saved_uic_err' = {}
    /\ UNCHANGED <<ehRestVars, ringSetVars, tr_doorbell, tm_doorbell, intr_status,
                   tm_condition, ufshcd_state, force_reset, uic_link_state,
                   eh_work>>

\* how one ufshcd_host_reset_and_restore can end: ufshcd_hba_enable fails, the
\* link startup of ufshcd_probe_hba fails, a later step of ufshcd_probe_hba
\* fails, or all succeed
ResetOutcomes == {"enable_fail", "link_fail", "probe_fail", "ok"}

\* the run state ufshcd_probe_hba leaves at its label out
ufshcd_probe_hba(state, ok) ==
    IF ~ok THEN UFSHCD_STATE_ERROR
    ELSE IF state = UFSHCD_STATE_RESET THEN UFSHCD_STATE_OPERATIONAL
    ELSE state

\* one round of the loop of ufshcd_reset_and_restore: ufshcd_hba_stop puts the
\* controller into its reset state, which clears its doorbells and its
\* interrupt status; the outstanding requests are completed; then the
\* controller is enabled and the device probed
EhResetAttempt(outcome) ==
    /\ eh.pc = "attempt"
    /\ host_lock = "free"
    /\ tr_doorbell' = {}
    /\ tm_doorbell' = {}
    /\ intr_status' = {}
    /\ SetRing(ufshcd_complete_requests(Ring, {}, ufshcd_state))
    /\ tm_condition' = outstanding_tasks
    /\ uic_link_state' = IF outcome \in {"probe_fail", "ok"}
                         THEN UIC_LINK_ACTIVE_STATE ELSE UIC_LINK_OFF_STATE
    /\ ufshcd_state' = IF outcome = "enable_fail" THEN ufshcd_state
                       ELSE ufshcd_probe_hba(ufshcd_state, outcome = "ok")
    /\ eh' = IF outcome # "ok" /\ eh.retries - 1 > 0
             THEN [eh EXCEPT !.retries = @ - 1, !.err = "EIO"]
             ELSE [eh EXCEPT !.pc = "reset_done",
                             !.err = IF outcome = "ok" THEN "0" ELSE "EIO"]
    /\ UNCHANGED <<ehRestVars, saved_err, saved_uic_err, force_reset, eh_work>>

\* the end of ufshcd_reset_and_restore, which puts the cached errors back when
\* the reset failed, and the end of ufshcd_err_handler
EhResetDone ==
    /\ eh.pc = "reset_done"
    /\ host_lock = "free"
    /\ saved_err' = IF eh.err # "0" THEN saved_err \cup eh.saved_err ELSE saved_err
    /\ saved_uic_err' = IF eh.err # "0" THEN saved_uic_err \cup eh.saved_uic_err
                        ELSE saved_uic_err
    /\ EhOut(Ring, ufshcd_state)
    /\ UNCHANGED <<ehRestVars, tr_doorbell, tm_doorbell, intr_status, tm_condition,
                   force_reset, uic_link_state>>

ErrHandler ==
    \/ EhWorkStart
    \/ EhEntry
    \/ EhBegin
    \/ (\E ok \in BOOLEAN : EhClearPending(ok))
    \/ EhAfterClear
    \/ EhResetStart
    \/ (\E outcome \in ResetOutcomes : EhResetAttempt(outcome))
    \/ EhResetDone

\* ------------------------------------------------------------------------
\* link control (UIC) commands: ufshcd_send_uic_cmd for the commands that
\* complete with UIC_COMMAND_COMPL, ufshcd_uic_pwr_ctrl for the commands that
\* change the power mode of the link
\* ------------------------------------------------------------------------
\* the variables no step of an issuer of link control commands writes
uicRestVars == <<cfgVars, resetVars, ringVars, intr_status, clk_scaling_lock,
                 host_lock, qc,
                 devcmd, intr, tmVars, clocks_on, irq_enabled, holder,
                 pm_op_in_progress, eh, uic_error, uic_error_code, scaleVars,
                 upmcrs>>

\* ufshcd_enable_intr: the value it writes to REG_INTERRUPT_ENABLE when the
\* register reads set
ufshcd_enable_intr(set, intrs) ==
    IF ufs_version = "V10"
    THEN (set \cap INTERRUPT_MASK_RW_VER_10) \cup (intrs \ set)
    ELSE set \cup intrs

\* a ufshcd_disable_intr that writes the register back as it is
DisableNothing(set, intrs) ==
    IF ufs_version = "V10" THEN set \cap INTERRUPT_MASK_RW_VER_10 ELSE set

\* ufshcd_disable_intr: the value it writes to REG_INTERRUPT_ENABLE
ufshcd_disable_intr(set, intrs) ==
    IF ufs_version = "V10"
    THEN ((set \cap INTERRUPT_MASK_RW_VER_10) \ intrs)
             \cup ((set \cap intrs) \ INTERRUPT_MASK_RW_VER_10)
    ELSE set \ intrs

\* REG_INTERRUPT_ENABLE after the write of value: UFSHCI 1.0 toggles the bits
\* outside INTERRUPT_MASK_RW_VER_10 that are written as 1
WriteIntrEnable(set, value) ==
    IF ufs_version = "V10"
    THEN (value \cap INTERRUPT_MASK_RW_VER_10)
             \cup (((set \ value) \cup (value \ set)) \ INTERRUPT_MASK_RW_VER_10)
    ELSE value

\* ufshcd_dispatch_uic_cmd for the command of issuer i: WARN_ON fires when a
\* command is still active
ufshcd_dispatch_uic_cmd(i, command) ==
    /\ active_uic_cmd' = i
    /\ uic_hw' = [st |-> "exec", command |-> command, res |-> "0"]
    /\ hist' = [hist EXCEPT !.warn = @ \/ active_uic_cmd # NULL,
                            !.dispatched = @ \cup {i}]

\* ufshcd_send_uic_cmd: ufshcd_hold(hba, false)
UicSendHold(i) ==
    /\ uic_cmd[i].pc = "idle"
    /\ host_lock = "free"
    /\ LET h == ufshcd_hold(Gating, uic_link_state, FALSE) IN
        /\ h.rc = "OK"
        /\ SetGating(h.g)
    /\ uic_cmd' = [uic_cmd EXCEPT ![i] = [IdleUic EXCEPT !.pc = "lock",
                                                 !.command = UIC_CMD_DME_GET]]
    /\ hist' = [hist EXCEPT !.dispatched = @ \ {i}]
    /\ UNCHANGED <<uicRestVars, ufshcd_state, saved_err, saved_uic_err, force_reset,
                   uic_link_state, eh_work, active_uic_cmd, uic_async_done,
                   intr_enable, uic_hw, uic_cmd_mutex>>

\* mutex_lock, then under the host lock __ufshcd_send_uic_cmd with
\* completion: ready is UIC_COMMAND_READY in REG_CONTROLLER_STATUS
UicSendDispatch(i, ready) ==
    /\ uic_cmd[i].pc = "lock"
    /\ uic_cmd_mutex = NULL
    /\ host_lock = "free"
    /\ ready => uic_hw.st = "idle"
    /\ uic_cmd_mutex' = i
    /\ IF ready
       THEN /\ uic_cmd' = [uic_cmd EXCEPT ![i].pc = "wait", ![i].done = FALSE,
                                  ![i].cmd_active = TRUE]
            /\ ufshcd_dispatch_uic_cmd(i, uic_cmd[i].command)
       ELSE /\ uic_cmd' = [uic_cmd EXCEPT ![i].pc = "unlock", ![i].ret = "EIO"]
            /\ UNCHANGED <<active_uic_cmd, uic_hw, hist>>
    /\ UNCHANGED <<uicRestVars, gateVars, ufshcd_state, saved_err, saved_uic_err,
                   force_reset, uic_link_state, eh_work, uic_async_done,
                   intr_enable>>

\* ufshcd_wait_for_uic_cmd: the completion done was completed in time
UicSendWaitDone(i) ==
    /\ uic_cmd[i].pc = "wait"
    /\ uic_cmd[i].done
    /\ uic_cmd' = [uic_cmd EXCEPT ![i].pc = "clear", ![i].ret = uic_cmd[i].result]
    /\ UNCHANGED <<uicRestVars, gateVars, ufshcd_state, saved_err, saved_uic_err,
                   force_reset, uic_link_state, eh_work, active_uic_cmd,
                   uic_async_done, intr_enable, uic_hw, uic_cmd_mutex, hist>>

\* wait_for_completion_timeout returns 0: the time ran out before done was
\* completed
UicSendTimeout(i) ==
    /\ uic_cmd[i].pc = "wait"
    /\ ~uic_cmd[i].done
    /\ uic_cmd' = [uic_cmd EXCEPT ![i].pc = "timedout", ![i].timed_out = TRUE]
    /\ UNCHANGED <<uicRestVars, gateVars, ufshcd_state, saved_err, saved_uic_err,
                   force_reset, uic_link_state, eh_work, active_uic_cmd,
                   uic_async_done, intr_enable, uic_hw, uic_cmd_mutex, hist>>

\* a timeout that does not look at cmd_active
UicSendAlwaysTimeout(i) ==
    /\ uic_cmd[i].pc = "timedout"
    /\ uic_cmd' = [uic_cmd EXCEPT ![i].pc = "clear", ![i].ret = "ETIMEDOUT"]
    /\ UNCHANGED <<uicRestVars, gateVars, ufshcd_state, saved_err, saved_uic_err,
                   force_reset, uic_link_state, eh_work, active_uic_cmd,
                   uic_async_done, intr_enable, uic_hw, uic_cmd_mutex, hist>>

\* after the timeout cmd_active is read: when the interrupt has cleared it
\* meanwhile the result it delivered is returned
UicSendAfterTimeout(i) ==
    /\ uic_cmd[i].pc = "timedout"
    /\ uic_cmd' = [uic_cmd EXCEPT ![i].pc = "clear",
                          ![i].ret = IF ~uic_cmd[i].cmd_active THEN uic_cmd[i].result
                                     ELSE "ETIMEDOUT"]
    /\ UNCHANGED <<uicRestVars, gateVars, ufshcd_state, saved_err, saved_uic_err,
                   force_reset, uic_link_state, eh_work, active_uic_cmd,
                   uic_async_done, intr_enable, uic_hw, uic_cmd_mutex, hist>>

\* an end of ufshcd_wait_for_uic_cmd that leaves hba->active_uic_cmd
UicSendKeepsActive(i) ==
    /\ uic_cmd[i].pc = "clear"
    /\ host_lock = "free"
    /\ uic_cmd' = [uic_cmd EXCEPT ![i].pc = "unlock"]
    /\ UNCHANGED <<uicRestVars, gateVars, ufshcd_state, saved_err, saved_uic_err,
                   force_reset, uic_link_state, eh_work, uic_async_done,
                   intr_enable, uic_hw, uic_cmd_mutex, hist, active_uic_cmd>>

\* the end of ufshcd_wait_for_uic_cmd: hba->active_uic_cmd = NULL under the
\* host lock
UicSendClear(i) ==
    /\ uic_cmd[i].pc = "clear"
    /\ host_lock = "free"
    /\ active_uic_cmd' = NULL
    /\ uic_cmd' = [uic_cmd EXCEPT ![i].pc = "unlock"]
    /\ UNCHANGED <<uicRestVars, gateVars, ufshcd_state, saved_err, saved_uic_err,
                   force_reset, uic_link_state, eh_work, uic_async_done,
                   intr_enable, uic_hw, uic_cmd_mutex, hist>>

\* mutex_unlock and ufshcd_release; ufshcd_send_uic_cmd returns ret
UicSendReturn(i) ==
    /\ uic_cmd[i].pc = "unlock"
    /\ host_lock = "free"
    /\ uic_cmd_mutex' = NULL
    /\ SetGating(ReleaseNow(Gating, lrb_in_use, ufshcd_state))
    /\ uic_cmd' = [uic_cmd EXCEPT ![i].pc = "idle"]
    /\ UNCHANGED <<uicRestVars, ufshcd_state, saved_err, saved_uic_err, force_reset,
                   uic_link_state, eh_work, active_uic_cmd, uic_async_done,
                   intr_enable, uic_hw, hist>>

SendUicCmd(i) ==
    \/ UicSendHold(i)
    \/ (\E ready \in BOOLEAN : UicSendDispatch(i, ready))
    \/ UicSendWaitDone(i)
    \/ UicSendTimeout(i)
    \/ UicSendAfterTimeout(i)
    \/ UicSendClear(i)
    \/ UicSendReturn(i)

\* the commands ufshcd_uic_pwr_ctrl is called with
PwrCommands == {UIC_CMD_DME_SET, UIC_CMD_DME_HIBER_ENTER}

\* ufshcd_uic_pwr_ctrl up to its wait: mutex_lock, init_completion, then under
\* the host lock the test of the link, hba->uic_async_done,
\* UIC_COMMAND_COMPL is disabled when it is enabled, and
\* __ufshcd_send_uic_cmd without completion
UicPwrBegin(i, command, ready) ==
    /\ uic_cmd[i].pc = "idle"
    /\ uic_cmd_mutex = NULL
    /\ host_lock = "free"
    /\ ready => uic_hw.st = "idle"
    /\ uic_cmd_mutex' = i
    /\ LET enabled == UIC_COMMAND_COMPL \in intr_enable
           c == [IdleUic EXCEPT !.command = command, !.was_enabled = enabled]
       IN  IF uic_link_state = UIC_LINK_BROKEN_STATE
           THEN /\ uic_cmd' = [uic_cmd EXCEPT ![i] = [c EXCEPT !.pc = "pret",
                                                                !.ret = "ENOLINK"]]
                /\ hist' = [hist EXCEPT !.dispatched = @ \ {i}]
                /\ UNCHANGED <<uic_async_done, intr_enable, active_uic_cmd, uic_hw>>
           ELSE /\ uic_async_done' = i
                /\ intr_enable' =
                       IF enabled
                       THEN WriteIntrEnable(intr_enable,
                                ufshcd_disable_intr(intr_enable, {UIC_COMMAND_COMPL}))
                       ELSE intr_enable
                /\ IF ready
                   THEN /\ uic_cmd' = [uic_cmd EXCEPT ![i] =
                               [c EXCEPT !.pc = "pwait", !.cmd_active = TRUE,
                                         !.reenable_intr = enabled]]
                        /\ ufshcd_dispatch_uic_cmd(i, command)
                   ELSE /\ uic_cmd' = [uic_cmd EXCEPT ![i] =
                               [c EXCEPT !.pc = "pout", !.ret = "EIO",
                                         !.reenable_intr = enabled]]
                        /\ hist' = [hist EXCEPT !.dispatched = @ \ {i}]
                        /\ UNCHANGED <<active_uic_cmd, uic_hw>>
    /\ UNCHANGED <<uicRestVars, gateVars, ufshcd_state, saved_err, saved_uic_err,
                   force_reset, uic_link_state, eh_work>>

\* wait_for_completion_timeout(hba->uic_async_done) was completed in time
UicPwrWaitDone(i) ==
    /\ uic_cmd[i].pc = "pwait"
    /\ uic_cmd[i].async
    /\ uic_cmd' = [uic_cmd EXCEPT ![i].pc = "upmcrs"]
    /\ UNCHANGED <<uicRestVars, gateVars, ufshcd_state, saved_err, saved_uic_err,
                   force_reset, uic_link_state, eh_work, active_uic_cmd,
                   uic_async_done, intr_enable, uic_hw, uic_cmd_mutex, hist>>

\* the time ran out before uic_async_done was completed
UicPwrTimeout(i) ==
    /\ uic_cmd[i].pc = "pwait"
    /\ ~uic_cmd[i].async
    /\ uic_cmd' = [uic_cmd EXCEPT ![i].pc = "ptimedout", ![i].timed_out = TRUE]
    /\ UNCHANGED <<uicRestVars, gateVars, ufshcd_state, saved_err, saved_uic_err,
                   force_reset, uic_link_state, eh_work, active_uic_cmd,
                   uic_async_done, intr_enable, uic_hw, uic_cmd_mutex, hist>>

\* after the timeout cmd_active is read: when the interrupt has cleared it
\* meanwhile the power mode status is checked, otherwise ret is -ETIMEDOUT
UicPwrAfterTimeout(i) ==
    /\ uic_cmd[i].pc = "ptimedout"
    /\ uic_cmd' = IF ~uic_cmd[i].cmd_active
                  THEN [uic_cmd EXCEPT ![i].pc = "upmcrs"]
                  ELSE [uic_cmd EXCEPT ![i].pc = "pout", ![i].ret = "ETIMEDOUT"]
    /\ UNCHANGED <<uicRestVars, gateVars, ufshcd_state, saved_err, saved_uic_err,
                   force_reset, uic_link_state, eh_work, active_uic_cmd,
                   uic_async_done, intr_enable, uic_hw, uic_cmd_mutex, hist>>

\* the label check_upmcrs: ret for the status ufshcd_get_upmcrs reads
UpmcrsResult(status, ret) ==
    IF status # PWR_LOCAL
    THEN (IF status # PWR_OK THEN status ELSE "-1")
    ELSE ret

UicPwrCheckUpmcrs(i) ==
    /\ uic_cmd[i].pc = "upmcrs"
    /\ uic_cmd' = [uic_cmd EXCEPT ![i].pc = "pout",
                                  ![i].ret = UpmcrsResult(upmcrs, @)]
    /\ UNCHANGED <<uicRestVars, gateVars, ufshcd_state, saved_err, saved_uic_err,
                   force_reset, uic_link_state, eh_work, active_uic_cmd,
                   uic_async_done, intr_enable, uic_hw, uic_cmd_mutex, hist>>

\* a label out that leaves the link state and the error handler alone
UicPwrOutLinkKept(i) ==
    /\ uic_cmd[i].pc = "pout"
    /\ host_lock = "free"
    /\ active_uic_cmd' = NULL
    /\ uic_async_done' = NULL
    /\ intr_enable' = IF uic_cmd[i].reenable_intr
                      THEN WriteIntrEnable(intr_enable,
                               ufshcd_enable_intr(intr_enable, {UIC_COMMAND_COMPL}))
                      ELSE intr_enable
    /\ uic_cmd' = [uic_cmd EXCEPT ![i].pc = "pret"]
    /\ UNCHANGED <<uicRestVars, gateVars, uic_hw, uic_cmd_mutex, hist, ufshcd_state,
                   saved_err, saved_uic_err, force_reset, uic_link_state, eh_work>>

\* the label out under the host lock: the command and the completion are
\* taken off the hba, UIC_COMMAND_COMPL is enabled again when it was disabled
\* here, and after a failure the link is marked broken and the error handler
\* scheduled
UicPwrOut(i) ==
    /\ uic_cmd[i].pc = "pout"
    /\ host_lock = "free"
    /\ active_uic_cmd' = NULL
    /\ uic_async_done' = NULL
    /\ intr_enable' = IF uic_cmd[i].reenable_intr
                      THEN WriteIntrEnable(intr_enable,
                               ufshcd_enable_intr(intr_enable, {UIC_COMMAND_COMPL}))
                      ELSE intr_enable
    /\ SetEhState(IF uic_cmd[i].ret # "0"
                  THEN ufshcd_schedule_eh_work(
                           [EhState EXCEPT !.link = UIC_LINK_BROKEN_STATE])
                  ELSE EhState)
    /\ uic_cmd' = [uic_cmd EXCEPT ![i].pc = "pret"]
    /\ UNCHANGED <<uicRestVars, gateVars, uic_hw, uic_cmd_mutex, hist>>

\* the label out_unlock: mutex_unlock; ufshcd_uic_pwr_ctrl returns ret
UicPwrReturn(i) ==
    /\ uic_cmd[i].pc = "pret"
    /\ uic_cmd_mutex' = NULL
    /\ uic_cmd' = [uic_cmd EXCEPT ![i].pc = "idle"]
    /\ UNCHANGED <<uicRestVars, gateVars, ufshcd_state, saved_err, saved_uic_err,
                   force_reset, uic_link_state, eh_work, active_uic_cmd,
                   uic_async_done, intr_enable, uic_hw, hist>>

UicPwrCtrl(i) ==
    \/ (\E command \in PwrCommands, ready \in BOOLEAN : UicPwrBegin(i, command, ready))
    \/ UicPwrWaitDone(i)
    \/ UicPwrTimeout(i)
    \/ UicPwrAfterTimeout(i)
    \/ UicPwrCheckUpmcrs(i)
    \/ UicPwrOut(i)
    \/ UicPwrReturn(i)

\* the variables the UIC command unit of the controller leaves alone
uicHwRestVars == <<cfgVars, resetVars, ringVars, clk_scaling_lock, host_lock, qc,
                   devcmd, intr,
                   tmVars, gateVars, ehVars, uicVars, scaleVars, intr_enable,
                   uic_cmd_mutex, uic_cmd, hist>>

\* the controller finishes the command and raises UIC_COMMAND_COMPL with the
\* result res; an accepted power mode command goes on changing the mode
UicHwCompletes(res) ==
    /\ uic_hw.st = "exec"
    /\ clocks_on
    /\ intr_status' = intr_status \cup {UIC_COMMAND_COMPL}
    /\ uic_hw' = [uic_hw EXCEPT !.res = res,
                                !.st = IF uic_hw.command \in PwrCommands /\ res = "0"
                                       THEN "pwr" ELSE "idle"]
    /\ UNCHANGED <<uicHwRestVars, upmcrs>>

\* the power mode change ends with status in UPMCRS and the interrupt of the
\* command
UicHwPowerDone(status) ==
    /\ uic_hw.st = "pwr"
    /\ clocks_on
    /\ intr_status' = intr_status \cup
                          {IF uic_hw.command = UIC_CMD_DME_HIBER_ENTER
                           THEN UIC_HIBERNATE_ENTER ELSE UIC_POWER_MODE}
    /\ upmcrs' = status
    /\ uic_hw' = [uic_hw EXCEPT !.st = "idle"]
    /\ UNCHANGED uicHwRestVars

UicHw ==
    \/ (\E res \in {"0", "fail"} : UicHwCompletes(res))
    \/ (\E status \in {PWR_LOCAL, PWR_FATAL_ERROR} : UicHwPowerDone(status))

\* ------------------------------------------------------------------------
\* ufshcd_eh_host_reset_handler, the host reset handler of the SCSI error
\* handling
\* ------------------------------------------------------------------------
\* under the host lock hba->force_reset is set and the error handler scheduled
HostResetSchedule ==
    /\ eh_host_reset.pc = "idle"
    /\ host_lock = "free"
    /\ SetEhState(ufshcd_schedule_eh_work([EhState EXCEPT !.force_reset = TRUE]))
    /\ eh_host_reset' = [pc |-> "flush", err |-> "SUCCESS"]
    /\ UNCHANGED <<cfgVars, chanVars, link_recovery, ringVars, intr_status,
                   clk_scaling_lock, host_lock, qc, devcmd, intr, tmVars, gateVars,
                   pm_op_in_progress, eh, uicVars, scaleVars, hist>>

\* flush_work(&hba->eh_work) returns when the work is neither queued nor
\* running; the handler fails when the run state is ERROR then
HostResetFlushed ==
    /\ eh_host_reset.pc = "flush"
    /\ ~eh_work.pending
    /\ ~eh_work.running
    /\ host_lock = "free"
    /\ eh_host_reset' = [pc |-> "idle",
                         err |-> IF ufshcd_state = UFSHCD_STATE_ERROR
                                 THEN "FAILED" ELSE "SUCCESS"]
    /\ UNCHANGED <<cfgVars, chanVars, link_recovery, ringVars, intr_status,
                   clk_scaling_lock, host_lock, qc, devcmd, intr, tmVars, gateVars,
                   ehVars, uicVars, scaleVars, hist>>

EhHostResetHandler == HostResetSchedule \/ HostResetFlushed

\* ------------------------------------------------------------------------
\* ufshcd_link_recovery, exported to the variant drivers
\* ------------------------------------------------------------------------
\* the variables no step of ufshcd_link_recovery writes
linkRecoveryRestVars == <<cfgVars, eh_host_reset, chanVars, utrd, lrb_command_type,
                          req_abort_skip, clk_scaling_lock, host_lock, qc, devcmd,
                          intr, outstanding_tasks, tm_slots_in_use, utmrd, tm,
                          abort, clocks_on, irq_enabled, holder, pm_op_in_progress,
                          uicVars, scaleVars, saved_err, saved_uic_err,
                          force_reset, eh_work, eh>>

\* under the host lock the run state is set to RESET; nothing is tested
LinkRecoveryBegin ==
    /\ link_recovery.pc = "idle"
    /\ host_lock = "free"
    /\ ufshcd_state' = UFSHCD_STATE_RESET
    /\ link_recovery' = [pc |-> "reset", ret |-> "0"]
    /\ UNCHANGED <<linkRecoveryRestVars, ringSetVars, tr_doorbell, tm_doorbell,
                   intr_status, tm_condition, uic_link_state>>

\* ufshcd_host_reset_and_restore, called without ufshcd_reset_and_restore
\* around it
LinkRecoveryReset(outcome) ==
    /\ link_recovery.pc = "reset"
    /\ host_lock = "free"
    /\ tr_doorbell' = {}
    /\ tm_doorbell' = {}
    /\ intr_status' = {}
    /\ SetRing(ufshcd_complete_requests(Ring, {}, ufshcd_state))
    /\ tm_condition' = outstanding_tasks
    /\ uic_link_state' = IF outcome \in {"probe_fail", "ok"}
                         THEN UIC_LINK_ACTIVE_STATE ELSE UIC_LINK_OFF_STATE
    /\ ufshcd_state' = IF outcome = "enable_fail" THEN ufshcd_state
                       ELSE ufshcd_probe_hba(ufshcd_state, outcome = "ok")
    /\ link_recovery' = [pc |-> "done",
                         ret |-> IF outcome = "ok" THEN "0" ELSE "EIO"]
    /\ UNCHANGED linkRecoveryRestVars

\* under the host lock a failed reset sets the run state ERROR
LinkRecoveryEnd ==
    /\ link_recovery.pc = "done"
    /\ host_lock = "free"
    /\ ufshcd_state' = IF link_recovery.ret # "0" THEN UFSHCD_STATE_ERROR
                       ELSE ufshcd_state
    /\ link_recovery' = [link_recovery EXCEPT !.pc = "idle"]
    /\ UNCHANGED <<linkRecoveryRestVars, ringSetVars, tr_doorbell, tm_doorbell,
                   intr_status, tm_condition, uic_link_state>>

LinkRecovery ==
    \/ LinkRecoveryBegin
    \/ (\E outcome \in ResetOutcomes : LinkRecoveryReset(outcome))
    \/ LinkRecoveryEnd

DevCmd == \/ DevBegin \/ DevTagRead \/ DevTagTas \/ DevSend \/ DevWaitDone
          \/ DevTimeout
          \/ (\E cleared \in BOOLEAN : DevClearCmd(cleared))
          \/ DevClrWrite

Interrupt == IntrEnter \/ IntrReadDoorbell \/ IntrCompl

QueueCommand == \E t \in Tags : QcClaim(t) \/ QcMapSgFail(t) \/ QcIssue(t)

Next ==
    \/ QueueCommand
    \/ DevCmd
    \/ DeviceCompletes
    \/ Interrupt

Spec == Init /\ [][Next]_vars

\* the interrupt handler has returned and no interrupt is pending
IntrQuiet == host_lock = "free" /\ intr.pc = "idle" /\ intr_status = {}

\* C1: whenever the host lock is free, bit t of outstanding_reqs is set exactly
\* for the tags on which a command was submitted by ufshcd_send_command and
\* whose submission has not yet been reconciled as complete
OutstandingMatchesSubmitted ==
    host_lock = "free" => outstanding_reqs = hist.sub

\* C5: once the interrupt handler has run after the device cleared the
\* doorbell bit of a submitted data command, that command has been notified
\* to its caller, and no command is notified twice
EveryCompletionNotifiedOnce ==
    /\ IntrQuiet => hist.devclr = {}
    /\ \A t \in Tags : hist.notified[t] <= 1

\* C7: reconciliation is idempotent: when ufshcd_transfer_req_compl runs again
\* and the transfer doorbell has not changed since the previous run read it,
\* the run computes an empty completed set, so the pass is skipped: nobody is
\* notified and outstanding_reqs, lrb_in_use and the slots stay as they are
ReconciliationIdempotent ==
    [][(intr.pc = "doorbell" /\ intr'.pc = "compl" /\ intr.xfer /\ hist.dbsame)
          => intr'.completed = {}]_vars

\* ------------------------------------------------------------------------
\* The loop of ufshcd_intr against data commands and one task management
\* caller, whose completions raise status bits while the handler runs.  The
\* handler is straight-line code under a spin lock and a pending interrupt
\* is taken: its steps are weakly fair.
\* ------------------------------------------------------------------------
IntrLoopNext ==
    \/ \E t \in Tags : QcClaim(t) \/ QcIssue(t)
    \/ DeviceCompletes
    \/ DeviceCompletesTm
    \/ Interrupt
    \/ RawTmCall(NTags)
    \/ IssueTm(NTags)
    \/ RawTmReturn(NTags)

IntrLoopSpec == Init /\ [][IntrLoopNext]_vars /\ WF_vars(Interrupt)

\* the handler leaves its loop
IntrExits == intr.pc = "compl" /\ intr'.pc = "idle"

\* C32: one invocation of ufshcd_intr dispatches at most NTags times and
\* terminates; after a dispatch it reads the status again, goes on when a bit
\* is set and a retry is left, and returns otherwise without touching the
\* status, so that a bit raised after the previous read is still pending; a
\* pending transfer completion bit is dispatched by a later round, of this
\* invocation or of the next
IntrLoopBoundedAndLossless ==
    /\ [](intr.pc # "idle" => intr.retries \in 0 .. (NTags - 1))
    /\ [][(intr.pc = "compl" /\ intr' # intr)
             => IF intr_status # {} /\ intr.retries > 0
                THEN intr'.pc = "doorbell" /\ intr'.retries = intr.retries - 1
                ELSE intr'.pc = "idle" /\ intr_status' = intr_status]_vars
    /\ [][(intr.pc = "compl" /\ intr_status = {} /\ intr' # intr) => IntrExits]_vars
    /\ (intr.pc # "idle") ~> (intr.pc = "idle")
    /\ (UTP_TRANSFER_REQ_COMPL \in EnabledIntrStatus)
           ~> (intr.pc = "doorbell" /\ intr.xfer)

\* the handler has used up its rounds with a status bit raised since its last
\* dispatch: it returns and the bit is left for the next invocation
IntrRetriesUsedUp ==
    /\ intr.pc = "compl"
    /\ intr.retries = 0
    /\ intr_status # {}

\* C31: a step that changes outstanding_reqs, outstanding_tasks or the run
\* state is taken by a thread that holds the host lock: it takes the free
\* lock for the step, or it is the interrupt handler, which holds the lock
\* from entry to exit
SharedStateWrittenUnderLock ==
    [][(\/ outstanding_reqs' # outstanding_reqs
        \/ outstanding_tasks' # outstanding_tasks
        \/ ufshcd_state' # ufshcd_state)
           => (host_lock = "free" \/ (host_lock = "intr" /\ intr' # intr))]_vars

\* __ufshcd_transfer_req_compl has run on the set the handler computed
ReconciliationPass == intr.pc = "compl" /\ intr'.pc # "compl"

\* no command is submitted on tag t and its bit in outstanding_reqs is clear,
\* as ufshcd_wait_for_dev_cmd leaves the tag of a command that has timed out
ReleasedTag(t) == t \notin hist.sub /\ t \notin outstanding_reqs

\* C30: a reconciliation pass leaves a tag that was released after a timeout
\* alone, whether its doorbell bit is still set or not: the pass notifies
\* nobody for it, completes no command that has taken the tag since, wakes
\* nobody on its account and changes neither its bit in outstanding_reqs nor
\* its bit in lrb_in_use
StaleCompletionIgnored ==
    [][ReconciliationPass =>
          \A t \in Tags :
              ReleasedTag(t) =>
                  /\ hist'.notified[t] = hist.notified[t]
                  /\ lrb_cmd'[t] = lrb_cmd[t]
                  /\ t \in intr.completed => dev_cmd_complete' = dev_cmd_complete
                  /\ (t \in outstanding_reqs') = (t \in outstanding_reqs)
                  /\ (t \in lrb_in_use') = (t \in lrb_in_use)]_vars

\* the half of it that holds: a released tag whose doorbell bit is clear when
\* the handler reads the register is not in the set of the pass
ClearedStaleBitIgnored ==
    [][(intr.pc = "doorbell" /\ intr'.pc = "compl")
          => \A t \in Tags : (ReleasedTag(t) /\ t \notin tr_doorbell)
                                 => t \notin intr'.completed]_vars

\* a step of the interrupt handler, of ufshcd_abort or of the recovery
\* worker that calls __ufshcd_transfer_req_compl
IntrComplCall == intr.pc = "compl" /\ intr' # intr
AbortComplCall == \E t \in Tags : abort[t].pc = "cleanup" /\ abort'[t].pc # "cleanup"
EhComplCall == eh.pc \in {"begin", "cleared", "attempt"} /\ eh' # eh

\* C33: __ufshcd_transfer_req_compl is called with a subset of
\* outstanding_reqs, so a step that calls it only takes bits out of
\* outstanding_reqs
ComplSetWithinOutstanding ==
    /\ [][IntrComplCall => intr.completed \subseteq outstanding_reqs]_vars
    /\ [][\A t \in Tags : (abort[t].pc = "cleanup" /\ abort'[t].pc # "cleanup")
                              => t \in outstanding_reqs]_vars
    /\ [][(IntrComplCall \/ AbortComplCall \/ EhComplCall)
             => outstanding_reqs' \subseteq outstanding_reqs]_vars

\* __ufshcd_issue_tm_cmd of issuer i returns 0 with the response copied back
TmReportedDone(i) ==
    /\ tm[i].pc = "wait"
    /\ tm'[i].pc = "done"
    /\ tm'[i].err = "0"

\* C36: a task management command is reported as completed only when the
\* doorbell bit that its submission set has been cleared; a bit of
\* tm_condition left from another or an earlier command does not end the wait
TmDoneOnlyAfterDoorbellCleared ==
    [][\A i \in TmIssuers :
          TmReportedDone(i) => tm[i].slot \notin tm_doorbell]_vars

\* C34: whenever the host lock is free every tag with its bit set in
\* outstanding_reqs has its bit set in lrb_in_use
OutstandingWithinInUse ==
    host_lock = "free" => outstanding_reqs \subseteq lrb_in_use

\* ------------------------------------------------------------------------
\* The abort handler and the task management commands against submission
\* and completion
\* ------------------------------------------------------------------------
AbortNext ==
    \/ \E t \in Tags : QcClaim(t) \/ QcIssue(t)
    \/ DeviceCompletes
    \/ DeviceCompletesTm
    \/ Interrupt
    \/ \E t \in Tags : Abort(t)

AbortSpec == Init /\ [][AbortNext]_vars

\* __ufshcd_issue_tm_cmd of issuer i returns after a timeout of the wait
TmTimesOut(i) == tm[i].pc = "wait" /\ tm'[i].pc = "done" /\ tm'[i].err # "0"

\* C29: after a timeout of a task management command the value returned
\* tells whether the forced clear of the slot failed: it is not the value
\* returned for the other outcome, the outcome being read off the doorbell
\* bit of the slot after ufshcd_clear_tm_cmd
TmTimeoutTellsClearFailed ==
    [][\A i \in TmIssuers :
           TmTimesOut(i) => tm'[i].err # TmTimeoutErr(tm[i].slot \in tm_doorbell')]_vars

\* C29, as the code has it: after a timeout the force-clear is attempted (the
\* doorbell bit of a slot that is in outstanding_tasks is gone afterwards
\* unless the controller did not clear it in time), the value returned is
\* ETIMEDOUT whatever the clear has done, and the slot is given back
TmTimeoutReturnsOneValue ==
    [][\A i \in TmIssuers :
           TmTimesOut(i)
               => /\ tm'[i].err = "ETIMEDOUT"
                  /\ tm[i].slot \in outstanding_tasks
                         => (tm[i].slot \notin tm_doorbell'
                             \/ tm_doorbell' = tm_doorbell)
                  /\ tm[i].slot \notin outstanding_tasks'
                  /\ tm[i].slot \notin tm_slots_in_use']_vars

\* a task management command has timed out and its slot was given back with
\* the doorbell bit still set: the clear has failed
TmTimedOutClearFailed ==
    \E i \in TmIssuers :
        /\ tm[i].pc = "done"
        /\ tm[i].err = "ETIMEDOUT"
        /\ tm_slots_in_use = {}
        /\ tm_doorbell # {}

\* ------------------------------------------------------------------------
\* The three kinds of submitter racing for tags and slots: data commands,
\* device management commands that complete in time, and raw task
\* management requests
\* ------------------------------------------------------------------------
DevCmdInTime == DevBegin \/ DevTagRead \/ DevTagTas \/ DevSend \/ DevWaitDone

ClaimNext ==
    \/ QueueCommand
    \/ DevCmdInTime
    \/ DeviceCompletes
    \/ DeviceCompletesTm
    \/ Interrupt
    \/ RawTm

ClaimSpec == Init /\ [][ClaimNext]_vars

\* ------------------------------------------------------------------------
\* The result of a data command for every descriptor the device can write,
\* with and without UFSHCD_QUIRK_BROKEN_OCS_FATAL_ERROR
\* ------------------------------------------------------------------------
RspInit == \E q \in BOOLEAN : InitHba([NoCaps EXCEPT !.broken_ocs_quirk = q], {"V2"})

RspNext ==
    \/ QueueCommand
    \/ DeviceCompletesIn(DeviceDescs)
    \/ Interrupt

RspSpec == RspInit /\ [][RspNext]_vars

\* the pass has notified the command of tag t and the tag has not been
\* claimed again
Notified(t) == hist.notified[t] = 1 /\ hist.result[t] \in
                    {DID_OK, DID_ABORT, DID_REQUEUE, DID_ERROR}

\* the pass has cleared the outstanding bit and given the slot back
SlotReleased(t) ==
    t \notin outstanding_reqs /\ t \notin lrb_in_use /\ lrb_cmd[t] = NULL

\* C6 as stated: the host byte is a function of the overall status alone
ResultByOcsAlone ==
    \A t \in Tags :
        Notified(t) =>
            /\ SlotReleased(t)
            /\ hist.result[t] =
                    CASE utrd[t].ocs = OCS_SUCCESS -> DID_OK
                      [] utrd[t].ocs = OCS_ABORTED -> DID_ABORT
                      [] utrd[t].ocs = OCS_INVALID_COMMAND_STATUS -> DID_REQUEUE
                      [] OTHER -> DID_ERROR

\* the overall status the driver goes by: with the quirk a response that
\* carries a result other than zero counts as success
EffectiveOcs(d) ==
    IF caps.broken_ocs_quirk /\ d.status # SAM_STAT_GOOD THEN OCS_SUCCESS ELSE d.ocs

\* C6 amended: the slot is released and the host byte comes from the
\* descriptor of the same tag; success maps to DID_OK only for a response
\* UPIU with status GOOD, CHECK CONDITION or BUSY and to DID_ERROR for a
\* reject UPIU, another transaction type or another status; aborted maps to
\* DID_ABORT, invalid command status to DID_REQUEUE, the rest to DID_ERROR
ResultByOcsAndResponse ==
    \A t \in Tags :
        Notified(t) =>
            /\ SlotReleased(t)
            /\ hist.result[t] =
                    CASE EffectiveOcs(utrd[t]) = OCS_SUCCESS ->
                            IF /\ utrd[t].rsp = UPIU_TRANSACTION_RESPONSE
                               /\ utrd[t].status \in {SAM_STAT_GOOD,
                                                       SAM_STAT_CHECK_CONDITION,
                                                       SAM_STAT_BUSY}
                            THEN DID_OK ELSE DID_ERROR
                      [] EffectiveOcs(utrd[t]) = OCS_ABORTED -> DID_ABORT
                      [] EffectiveOcs(utrd[t]) = OCS_INVALID_COMMAND_STATUS ->
                            DID_REQUEUE
                      [] OTHER -> DID_ERROR

\* a command that the device answered with success and a reject UPIU has
\* been completed with DID_ERROR while the other tag's descriptor says
\* something else
SuccessWithRejectNotified ==
    \E t \in Tags :
        /\ Notified(t)
        /\ utrd[t].ocs = OCS_SUCCESS
        /\ utrd[t].rsp = UPIU_TRANSACTION_REJECT_UPIU
        /\ hist.result[t] = DID_ERROR
        /\ \E u \in Tags \ {t} : utrd[u].ocs = OCS_ABORTED

\* ------------------------------------------------------------------------
\* Clock scaling against the three kinds of submitter
\* ------------------------------------------------------------------------
ScaleInit == InitHba([NoCaps EXCEPT !.clk_scaling = TRUE], {"V2"})

ScaleTm == RawTmCall(NTags) \/ IssueTm(NTags) \/ RawTmReturn(NTags)

ScaleNext ==
    \/ QueueCommand
    \/ DevCmdInTime
    \/ DeviceCompletes
    \/ DeviceCompletesTm
    \/ Interrupt
    \/ ScaleTm
    \/ DevfreqScale({0}, {TRUE})

ScaleSpec == ScaleInit /\ [][ScaleNext]_vars

\* the scale operation with a clock framework and a variant that may fail at
\* every call, against data commands
ClkScaleNext ==
    \/ QueueCommand
    \/ DeviceCompletes
    \/ Interrupt
    \/ DevfreqScale(ClkFails, BOOLEAN)

ClkScaleSpec == ScaleInit /\ [][ClkScaleNext]_vars

AllClksAt(freq) == \A k \in Clks : scaling.clk[k] = freq

\* C27: the gear is lowered before the frequencies and raised after them, so
\* the gear is never the high one while the clocks are at the low frequency
NeverHighGearAtLowClks == ~(scaling.gear = "high" /\ AllClksAt("low"))

\* ufshcd_devfreq_scale returns, with an error
ScaleReturns == scaling.pc # "idle" /\ scaling'.pc = "idle"
ScaleFails == ScaleReturns /\ scaling'.ret # "0"

\* C28: when ufshcd_devfreq_scale returns an error the gear and the frequency
\* of every clock are what they were at the call, the writer has left
\* clk_scaling_lock and the requests are not blocked any more
FailedScaleUndone ==
    [][ScaleFails => /\ scaling'.gear = scaling.entry.gear
                     /\ scaling'.clk = scaling.entry.clk
                     /\ ~clk_scaling_lock'.writer
                     /\ scsi_block_reqs_cnt' = 0]_vars

\* the parts of it that do not depend on an undo: the barrier is taken away
\* on every return, and a wait for the doorbells that fails changes nothing
BarrierReleasedOnReturn ==
    [][ScaleReturns => (~clk_scaling_lock'.writer /\ scsi_block_reqs_cnt' = 0)]_vars

FailedDrainChangesNothing ==
    [][(ScaleFails /\ scaling.pc = "drain")
           => (scaling'.gear = scaling.gear /\ scaling'.clk = scaling.clk)]_vars

\* the order of the steps taken for itself: a step that lowers a frequency in
\* a scale down finds the gear low, and the step that raises the gear in a
\* scale up finds every clock at the high frequency
GearAndClksOrdered ==
    [][/\ (scaling.pc = "clks" /\ ~scaling.up /\ scaling'.clk # scaling.clk)
              => scaling.gear = "low"
       /\ (scaling.pc = "gear_up" /\ scaling'.gear = "high")
              => AllClksAt("high")]_vars

\* from the successful drain check to the end of the gear and frequency change
ScaleChanging == scaling.pc \in {"gear_down", "clks", "gear_up"}

\* C4: while a scale operation changes the gear and the frequency both
\* doorbells are clear and no step of any path rings one of them
NoSubmitWhileScaling ==
    /\ [](ScaleChanging => (tr_doorbell = {} /\ tm_doorbell = {}))
    /\ [][ScaleChanging => (tr_doorbell' \subseteq tr_doorbell
                            /\ tm_doorbell' \subseteq tm_doorbell)]_vars

\* ------------------------------------------------------------------------
\* Clock gating: data commands and a task management caller hold and release
\* the clocks against the gate work and the ungate work
\* ------------------------------------------------------------------------
GateInit ==
    \E h \in BOOLEAN :
        InitHba([NoCaps EXCEPT !.clk_gating = TRUE, !.hibern8_gating = h], {"V2"})

GateTm == \/ RawTmCall(NTags) \/ IssueTm(NTags) \/ TmHold(NTags)
          \/ TmFlushOn(NTags) \/ TmFlushed(NTags)
          \/ TmFlush(NTags) \/ RawTmReturn(NTags)

GateNext ==
    \/ \E t \in Tags : QcClaim(t) \/ QcHold(t) \/ QcIssue(t)
    \/ DeviceCompletes
    \/ DeviceCompletesTm
    \/ Interrupt
    \/ GateTm
    \/ GateWork
    \/ UngateWork

GateSpec == GateInit /\ [][GateNext]_vars

\* C3: while a bit of outstanding_reqs or of outstanding_tasks is set the
\* gating state is not CLKS_OFF and the clocks are not turned off
ClocksOnWhileOutstanding ==
    (outstanding_reqs # {} \/ outstanding_tasks # {})
        => (clk_gating.state # CLKS_OFF /\ clocks_on)

\* the gate work has turned the clocks off and a data command that has
\* claimed its slot is about to ask for them
SubmitWhileGated ==
    /\ clk_gating.state = CLKS_OFF
    /\ ~clocks_on
    /\ \E t \in Tags : qc[t] = "hold"

\* C2: between two releases of a transfer tag or of a task management slot at
\* most one caller has succeeded in claiming it
NoDoubleClaim ==
    /\ \A t \in Tags : hist.claims[t] <= 1
    /\ \A s \in TmSlots : hist.tmclaims[s] <= 1

\* a device management command and a task management caller each about to
\* try a tag or slot that another submitter holds
ClaimContended ==
    /\ devcmd.pc = "tas"
    /\ devcmd.tag \in lrb_in_use
    /\ hist.claims[devcmd.tag] = 1
    /\ \E i \in RawIssuers :
         /\ tm[i].pc = "tas"
         /\ tm[i].slot \in tm_slots_in_use
         /\ hist.tmclaims[tm[i].slot] = 1

\* ------------------------------------------------------------------------
\* The blocking hold under fair scheduling: a task management caller holds
\* and releases the clocks, the work queue runs the gate work and the ungate
\* work, and every step that is enabled is taken in the end
\* ------------------------------------------------------------------------
HoldNext ==
    \/ GateTm
    \/ DeviceCompletesTm
    \/ Interrupt
    \/ GateWork
    \/ UngateWork

HoldSpec ==
    /\ GateInit
    /\ [][HoldNext]_vars
    /\ WF_vars(GateTm)
    /\ WF_vars(DeviceCompletesTm)
    /\ WF_vars(Interrupt)
    /\ WF_vars(GateWork)
    /\ WF_vars(UngateWork)

InBlockingHold ==
    tm[NTags].pc \in {"hold", "rehold", "flush", "flush_on", "flushed"}

\* C35: a call of ufshcd_hold(hba, false) returns in the end, whatever the
\* gating state at the call and whatever the outcome of the ungate work
BlockingHoldReturns == InBlockingHold ~> ~InBlockingHold

\* the ungate work has run to its end and has left the clocks requested but
\* not on, with a caller in the wait-and-retry loop
UngateFailedUnderHold ==
    /\ InBlockingHold
    /\ ~UngateWorkBusy
    /\ clk_gating.state = REQ_CLKS_ON

\* ------------------------------------------------------------------------
\* Clock gating with suspend and resume: the requests of GateSpec are sent
\* while the host is active
\* ------------------------------------------------------------------------
PmNext ==
    \/ \E t \in Tags : (HostActive /\ QcClaim(t)) \/ QcHold(t) \/ QcIssue(t)
    \/ DeviceCompletes
    \/ DeviceCompletesTm
    \/ Interrupt
    \/ (HostActive /\ RawTmCall(NTags))
    \/ IssueTm(NTags) \/ TmHold(NTags) \/ TmFlushOn(NTags) \/ TmFlushed(NTags)
    \/ TmFlush(NTags) \/ RawTmReturn(NTags)
    \/ GateWork
    \/ UngateWork
    \/ Suspend
    \/ Resume
    \/ PmRelease

PmSpec == GateInit /\ [][PmNext]_vars

\* the clock-gating state is written by ufshcd_suspend or by ufshcd_resume
\* itself, not by their calls of ufshcd_hold and ufshcd_release
PmWritesState ==
    /\ holder.pc \in {"disable_clks", "clocks", "link"}
    /\ holder' # holder
    /\ clk_gating'.state # clk_gating.state

\* C22 as stated: whoever writes the state, CLKS_OFF is followed by
\* REQ_CLKS_ON only and CLKS_ON by REQ_CLKS_OFF only
GatingTransitionsAllowed ==
    [][/\ clk_gating.state = CLKS_OFF
           => clk_gating'.state \in {CLKS_OFF, REQ_CLKS_ON}
       /\ clk_gating.state = CLKS_ON
           => clk_gating'.state \in {CLKS_ON, REQ_CLKS_OFF}]_vars

\* C22: CLKS_OFF is followed by REQ_CLKS_ON or, when ufshcd_resume or the
\* ungate work turns the clocks on, by CLKS_ON; CLKS_ON is followed by
\* REQ_CLKS_OFF or, when ufshcd_suspend or a failing ufshcd_resume turns
\* the clocks off, by CLKS_OFF
GatingTransitionsByWriter ==
    [][/\ (clk_gating.state = CLKS_OFF /\ clk_gating'.state # CLKS_OFF)
           => \/ clk_gating'.state = REQ_CLKS_ON
              \/ /\ clk_gating'.state = CLKS_ON
                 /\ \/ clocks_on' /\ (holder.pc = "clocks" \/ ungate_work.pc = "on")
                    \/ gate_work.pc = "gate" /\ gate_work'.pc = "idle"
       /\ (clk_gating.state = CLKS_ON /\ clk_gating'.state # CLKS_ON)
           => \/ clk_gating'.state = REQ_CLKS_OFF
              \/ /\ clk_gating'.state = CLKS_OFF
                 /\ ~clocks_on'
                 /\ PmWritesState]_vars

\* the host is suspended with the clocks off and the state CLKS_OFF, still
\* holding the request counter of its hold
SuspendedClocksOff ==
    /\ holder.pc = "suspended"
    /\ clk_gating.state = CLKS_OFF
    /\ ~clocks_on
    /\ clk_gating.active_reqs > 0

\* C23: a step that changes the clock-gating state is taken by a thread that
\* holds the host lock: it takes the free lock for the step, or it is the
\* interrupt handler, which holds the lock from entry to exit
GatingStateWrittenUnderLock ==
    [][clk_gating'.state # clk_gating.state
           => (host_lock = "free" \/ (host_lock = "intr" /\ intr' # intr))]_vars

\* the step in which the gate work turns the clocks off
GateWorkCuts == gate_work.pc = "gate" /\ gate_work'.pc = "finish"

\* the callers of ufshcd_hold that are counted in active_reqs but wait for
\* the ungate work
WaitingHolds ==
    {i \in TmIssuers : tm[i].pc \in {"flush", "flush_on", "flushed", "rehold"}}
        \cup (IF holder.pc \in {"flush", "flush_on", "flushed", "rehold"}
              THEN {"pm"} ELSE {})

\* the callers whose hold was granted and who have not released it
GrantedHolds ==
    {t \in Tags : qc[t] = "issue"}
        \cup {i \in TmIssuers : tm[i].pc \in {"send", "wait"}}
        \cup outstanding_reqs

\* C24 as stated: when the gate work turns the clocks off everything it
\* tested under the host lock still holds
GateTestsHoldAtCut ==
    [][GateWorkCuts => /\ clk_gating.active_reqs = 0
                       /\ lrb_in_use = {}
                       /\ outstanding_tasks = {}
                       /\ ~UicBusy]_vars

\* C24: when the gate work turns the clocks off no request is outstanding,
\* no link control command is active and no hold is granted; active_reqs
\* counts only callers of ufshcd_hold that wait for the ungate work, and a
\* slot in use belongs to a data command that has not passed its hold
NothingGrantedAtCut ==
    [][GateWorkCuts => /\ outstanding_reqs = {}
                       /\ outstanding_tasks = {}
                       /\ ~UicBusy
                       /\ GrantedHolds = {}
                       /\ clk_gating.active_reqs = Cardinality(WaitingHolds)
                       /\ \A t \in lrb_in_use : qc[t] = "hold"]_vars

\* the gate work has turned the clocks off while a task management caller
\* is counted in active_reqs and a data command has claimed a slot
CutWithWaitingCallers ==
    /\ gate_work.pc = "finish"
    /\ ~clocks_on
    /\ clk_gating.active_reqs > 0
    /\ lrb_in_use # {}

\* C25: ufshcd_hold returns 0 only with the gating state CLKS_ON, to the
\* asynchronous caller of the submission path, to the blocking caller of the
\* task management path and to ufshcd_suspend; the state is still CLKS_ON
\* when the submission path tests it in its WARN_ON; and a hold that
\* returns -EAGAIN leaves active_reqs as it was before the call
HoldGrantedOnlyWhenOn ==
    /\ [][\A t \in Tags :
            /\ (qc[t] = "hold" /\ qc'[t] = "issue")
                   => clk_gating'.state = CLKS_ON
            /\ (qc[t] = "hold" /\ qc'[t] = "idle")
                   => clk_gating'.active_reqs = clk_gating.active_reqs]_vars
    /\ [][\A i \in TmIssuers :
            (tm[i].pc \in {"hold", "rehold", "flushed"} /\ tm'[i].pc = "send")
                => clk_gating'.state = CLKS_ON]_vars
    /\ [][(holder.pc \in {"hold", "rehold", "flushed"} /\ holder'.pc = "mark")
                => clk_gating'.state = CLKS_ON]_vars
    /\ [](\A t \in Tags : qc[t] = "issue" => clk_gating.state = CLKS_ON)

\* a data command was granted its hold after the ungate work had turned the
\* clocks on again, while a blocking caller has not yet come back from its
\* flush of that work
GrantedAfterUngate ==
    /\ \E t \in Tags : qc[t] = "issue"
    /\ \E i \in TmIssuers : tm[i].pc = "flush"
    /\ clk_gating.state = CLKS_ON
    /\ clk_gating.active_reqs = 2

\* ------------------------------------------------------------------------
\* ufshcd_release alone: the caller gives back a granted hold in each state
\* of the counter, of is_suspended, of the run state, of the slots, of the
\* task management commands and of the link control command
\* ------------------------------------------------------------------------
\* the activity named by the tests of __ufshcd_release comes with a hold
\* of its own, counted beside that of the caller
ReleaseInputs ==
    {h0 \in [cg : [state : {CLKS_ON}, active_reqs : 1 .. MaxHolds,
                   is_suspended : BOOLEAN],
             state : RunStates,
             in_use : SUBSET Tags,
             tasks : SUBSET TmSlots,
             active_uic_cmd : {NULL, "uic0"},
             uic_async_done : {NULL, "uic0"},
             holder : {[pc |-> "release"]}] :
        /\ h0.uic_async_done # NULL => h0.active_uic_cmd # NULL
        /\ (h0.tasks # {} \/ h0.active_uic_cmd # NULL) => h0.cg.active_reqs >= 2}

ReleaseInit ==
    \E h0 \in ReleaseInputs :
        InitFrom([NoCaps EXCEPT !.clk_gating = TRUE], {"V2"}, h0)

ReleaseSpec == ReleaseInit /\ [][PmRelease]_vars

\* what __ufshcd_release tests after the decrement
NoPendingActivity ==
    /\ ~clk_gating.is_suspended
    /\ ufshcd_state = UFSHCD_STATE_OPERATIONAL
    /\ lrb_in_use = {}
    /\ outstanding_tasks = {}
    /\ active_uic_cmd = NULL
    /\ uic_async_done = NULL

HoldArrives ==
    \/ \E t \in Tags : qc[t] = "hold" /\ qc'[t] # "hold"
    \/ \E i \in TmIssuers : /\ tm[i].pc \in {"hold", "rehold"}
                             /\ tm'[i].pc \notin {"hold", "rehold"}

\* the gate work queued by the last release was cancelled by a hold
GateWorkCancelled == gate_work.cancelled

\* C21: a hold that finds REQ_CLKS_OFF with the gate work still queued takes
\* the work off the queue and sets CLKS_ON without touching the clocks, and
\* from then until a release queues the work again the handler does not
\* run, the state stays CLKS_ON and the clocks stay on
HoldCancelsPendingGate ==
    /\ [][(clk_gating.state = REQ_CLKS_OFF /\ gate_work.pending /\ HoldArrives)
            => /\ clk_gating'.state = CLKS_ON
               /\ ~gate_work'.pending
               /\ GateWorkCancelled'
               /\ gate_work'.pc = gate_work.pc
               /\ clocks_on' = clocks_on]_vars
    /\ [](GateWorkCancelled => /\ gate_work.pc = "idle"
                               /\ ~gate_work.pending
                               /\ clk_gating.state = CLKS_ON
                               /\ clocks_on)

\* a data command holds the clocks through a hold that cancelled the gate
\* work, and its request is in the hardware
HeldAfterCancel ==
    /\ GateWorkCancelled
    /\ clk_gating.active_reqs > 0
    /\ outstanding_reqs # {}

\* ------------------------------------------------------------------------
\* error recovery: commands, completions, error interrupts, power management
\* operations and the error handler
\* ------------------------------------------------------------------------
EhNext ==
    \/ \E t \in Tags : QcClaim(t) \/ QcIssue(t)
    \/ DeviceCompletes
    \/ DeviceRaisesError
    \/ Interrupt
    \/ PmOpBegin
    \/ PmOpEnd
    \/ ErrHandler

EhSpec == Init /\ [][EhNext]_vars

\* ufshcd_queuecommand for tag t reaches the switch on the run state and returns
IssueStep(t) == qc[t] = "issue" /\ qc'[t] = "idle" /\ hist'.result[t] # "EIO"

\* C8 as stated: the doorbell is rung only in OPERATIONAL or
\* EH_SCHEDULED_NON_FATAL; in RESET and in EH_SCHEDULED_FATAL the command is
\* rejected as busy and not completed; in ERROR it is completed with DID_ERROR
OutcomeByRunStateAlone ==
    [][\A t \in Tags : IssueStep(t) =>
          /\ (tr_doorbell' # tr_doorbell) =>
                ufshcd_state \in {UFSHCD_STATE_OPERATIONAL,
                                  UFSHCD_STATE_EH_SCHEDULED_NON_FATAL}
          /\ ufshcd_state \in {UFSHCD_STATE_RESET, UFSHCD_STATE_EH_SCHEDULED_FATAL} =>
                /\ hist'.result[t] = SCSI_MLQUEUE_HOST_BUSY
                /\ hist'.notified[t] = 0
          /\ ufshcd_state = UFSHCD_STATE_ERROR =>
                /\ hist'.result[t] = DID_ERROR
                /\ hist'.notified[t] = 1]_vars

\* C8: the outcome of a submission is determined by the run state and, in
\* EH_SCHEDULED_FATAL, by pm_op_in_progress, both read under the host lock: the
\* doorbell is rung exactly in OPERATIONAL and EH_SCHEDULED_NON_FATAL; in RESET,
\* and in EH_SCHEDULED_FATAL outside a power management operation, the command
\* is rejected as busy and not completed; in EH_SCHEDULED_FATAL during a power
\* management operation it is completed with DID_BAD_TARGET and force_reset is
\* set; in ERROR it is completed with DID_ERROR
OutcomeByRunStateAndPmOp ==
    [][\A t \in Tags : IssueStep(t) =>
          LET busy == \/ ufshcd_state = UFSHCD_STATE_RESET
                      \/ /\ ufshcd_state = UFSHCD_STATE_EH_SCHEDULED_FATAL
                         /\ ~pm_op_in_progress
              failed == /\ ufshcd_state = UFSHCD_STATE_EH_SCHEDULED_FATAL
                        /\ pm_op_in_progress
          IN  /\ (t \in tr_doorbell' /\ t \in outstanding_reqs') <=>
                    ufshcd_state \in {UFSHCD_STATE_OPERATIONAL,
                                      UFSHCD_STATE_EH_SCHEDULED_NON_FATAL}
              /\ busy => /\ hist'.result[t] = SCSI_MLQUEUE_HOST_BUSY
                          /\ hist'.notified[t] = 0
                          /\ tr_doorbell' = tr_doorbell
              /\ failed => /\ hist'.result[t] = DID_BAD_TARGET
                            /\ hist'.notified[t] = 1
                            /\ force_reset'
                            /\ tr_doorbell' = tr_doorbell
              /\ ufshcd_state = UFSHCD_STATE_ERROR =>
                    /\ hist'.result[t] = DID_ERROR
                    /\ hist'.notified[t] = 1
                    /\ tr_doorbell' = tr_doorbell
              /\ (busy \/ failed \/ ufshcd_state = UFSHCD_STATE_ERROR) =>
                    t \notin lrb_in_use' /\ lrb_cmd'[t] = NULL]_vars

\* a command sent during a power management operation has been failed with
\* DID_BAD_TARGET while the recovery was scheduled
FailedDuringPmOp ==
    \E t \in Tags : /\ hist.result[t] = DID_BAD_TARGET
                     /\ hist.notified[t] = 1
                     /\ force_reset
                     /\ ufshcd_state = UFSHCD_STATE_EH_SCHEDULED_FATAL

\* C9: when one invocation of the interrupt handler detects two fatal errors,
\* the recovery work is queued once in it, and when no other invocation has
\* found an error the body of the error handler runs at most once
RecoveryOncePerBatch ==
    hist.inv.fatal >= 2 =>
        /\ hist.inv.queued <= 1
        /\ hist.errinv = 1 => hist.ehbody <= 1

\* C10: when the error handler finishes after a ufshcd_reset_and_restore that
\* returned 0, and no error was raised or found since its body began, the run
\* state it leaves is OPERATIONAL
ResetSuccessLeavesOperational ==
    [][(eh.pc = "reset_done" /\ eh'.pc = "idle" /\ eh.err = "0" /\ ~hist.newerr)
          => ufshcd_state' = UFSHCD_STATE_OPERATIONAL]_vars

\* C11: ufshcd_reset_and_restore makes at most MAX_HOST_RESET_RETRIES attempts,
\* and when the error handler finishes after a ufshcd_reset_and_restore in
\* which every attempt failed, the run state it leaves is ERROR
ExhaustedResetLeavesError ==
    [][/\ eh'.pc = "attempt" => eh'.retries \in 1 .. MAX_HOST_RESET_RETRIES
       /\ (eh.pc = "reset_done" /\ eh'.pc = "idle" /\ eh.err # "0")
             => ufshcd_state' = UFSHCD_STATE_ERROR]_vars

\* ------------------------------------------------------------------------
\* Link control commands: the issuers of simple and of power mode commands
\* against the controller and the interrupt handler, on UFSHCI 1.0 and later
\* ------------------------------------------------------------------------
UicInit == InitHba(NoCaps, {"V10", "V2"})

UicNext ==
    \/ \E i \in UicIssuers : SendUicCmd(i) \/ UicPwrCtrl(i)
    \/ UicHw
    \/ Interrupt

UicSpec == UicInit /\ [][UicNext]_vars

\* ------------------------------------------------------------------------
\* The callers of ufshcd_schedule_eh_work in the error path: the interrupt
\* handler for every kind of error and the host reset handler, with the error
\* handler running. The third caller, a failed ufshcd_uic_pwr_ctrl, is in
\* UicSpec.
\* ------------------------------------------------------------------------
SchedInit == InitHba([NoCaps EXCEPT !.auto_hibern8 = TRUE], {"V2"})

SchedNext ==
    \/ DeviceRaisesErrorIn(ErrorKinds \cup LinkErrorKinds)
    \/ Interrupt
    \/ EhHostResetHandler
    \/ ErrHandler

SchedSpec == SchedInit /\ [][SchedNext]_vars

\* a step in which ufshcd_schedule_eh_work is called: a round of ufshcd_intr
\* whose ufshcd_check_errors sets queue_eh_work, or the host reset handler
SchedulesEhWork ==
    \/ /\ intr'.pc = "doorbell"
       /\ intr.pc \in {"idle", "compl"}
       /\ LET errors == SlIntrErrors(EnabledIntrStatus) IN
             \/ errors \cap (INT_FATAL_ERRORS \cup UFSHCD_UIC_HIBERN8_MASK) # {}
             \/ UIC_ERROR \in errors /\ uic_error' # {}
    \/ eh_host_reset.pc = "idle" /\ eh_host_reset'.pc = "flush"

\* the fatal conditions: a fatal error in the saved errors, a failed
\* automatic hibern8 transition, a forced reset, a broken link
FatalCondition ==
    \/ saved_err \cap (INT_FATAL_ERRORS \cup UFSHCD_UIC_HIBERN8_MASK) # {}
    \/ UFSHCD_UIC_DL_PA_INIT_ERROR \in saved_uic_err
    \/ force_reset
    \/ uic_link_state = UIC_LINK_BROKEN_STATE

\* C12: whenever the error handling is scheduled while the run state is not
\* ERROR, the run state becomes EH_SCHEDULED_FATAL when a fatal condition is
\* present and EH_SCHEDULED_NON_FATAL otherwise, and the one recovery work
\* hba->eh_work is queued
SchedulingClassifiesErrors ==
    [][(SchedulesEhWork /\ ufshcd_state # UFSHCD_STATE_ERROR)
          => /\ ufshcd_state' = IF FatalCondition'
                                THEN UFSHCD_STATE_EH_SCHEDULED_FATAL
                                ELSE UFSHCD_STATE_EH_SCHEDULED_NON_FATAL
             /\ eh_work'.pending]_vars

\* the recovery is scheduled for a UIC error that is not fatal
NonFatalScheduled ==
    /\ ufshcd_state = UFSHCD_STATE_EH_SCHEDULED_NON_FATAL
    /\ eh_work.pending
    /\ UFSHCD_UIC_NL_ERROR \in saved_uic_err
    /\ ~FatalCondition

\* ------------------------------------------------------------------------
\* Every path into ufshcd_host_reset_and_restore that does not need a
\* suspended device: the error handler, scheduled by the interrupt handler
\* and by the host reset handler, and ufshcd_link_recovery
\* ------------------------------------------------------------------------
RecoveryNext ==
    \/ DeviceRaisesError
    \/ Interrupt
    \/ EhHostResetHandler
    \/ ErrHandler
    \/ LinkRecovery

RecoverySpec == InitHba(NoCaps, {"V2"}) /\ [][RecoveryNext]_vars

\* C13: at no moment two sequences of ufshcd_host_reset_and_restore are in
\* progress: the error handler is not inside ufshcd_reset_and_restore while
\* ufshcd_link_recovery is at its ufshcd_host_reset_and_restore
OneRecoveryAtATime ==
    ~(eh.pc = "attempt" /\ link_recovery.pc = "reset")

ResetNeededAtOnce ==
    \/ FatalCondition
    \/ UIC_ERROR \in saved_err /\ UFSHCD_UIC_DL_NAC_RECEIVED_ERROR \in saved_uic_err

QuirkInit == InitHba([NoCaps EXCEPT !.dl_nac_quirk = TRUE], {"V2"})

QuirkNext ==
    \/ \E t \in Tags : QcClaim(t) \/ QcIssue(t)
    \/ DeviceCompletes
    \/ DeviceRaisesErrorIn(ErrorKinds \cup NacErrorKinds)
    \/ Interrupt
    \/ ErrHandler
    \/ QuirkDlNacErrors

QuirkSpec == QuirkInit /\ [][QuirkNext]_vars

\* C15: when the error handler finishes the handling of an error that is not
\* fatal without a reset, and no error arrived meanwhile, the run state is
\* OPERATIONAL and the error is no longer in hba->saved_err and
\* hba->saved_uic_err
NonFatalErrorCleared ==
    [][(/\ eh.pc \in {"cleared", "quirk_done"}
        /\ eh'.pc = "idle"
        /\ ~hist.newerr
        /\ intr_status \cap UFSHCD_ERROR_MASK = {})
          => /\ ufshcd_state' = UFSHCD_STATE_OPERATIONAL
             /\ saved_err' = {}
             /\ saved_uic_err' = {}]_vars

\* C16 as stated: when a recovery that did the reset finishes,
\* hba->outstanding_reqs is empty
RecoveryLeavesNothingOutstanding ==
    [][(eh.pc = "reset_done" /\ eh'.pc = "idle") => outstanding_reqs' = {}]_vars

\* C16: no command is lost across a recovery. When the body of the error
\* handler has completed the requests at its start, every request still
\* outstanding has its doorbell bit set; and when a recovery that did the
\* reset finishes, every command that was outstanding at the start of the body
\* is no longer outstanding and has been notified exactly once
NoCommandLostAcrossRecovery ==
    [][/\ (eh.pc = "begin" /\ eh'.pc \notin {"begin", "idle"})
              => outstanding_reqs' \subseteq tr_doorbell
       /\ (eh.pc = "reset_done" /\ eh'.pc = "idle")
              => /\ outstanding_reqs' \cap hist.atstart = {}
                 /\ \A t \in hist.atstart : hist'.notified[t] = 1]_vars

\* the reset of a recovery that began with commands outstanding has ended, and
\* a command issued since is outstanding
ResetDoneWithCommands ==
    /\ eh.pc = "reset_done"
    /\ hist.atstart # {}
    /\ \A t \in hist.atstart : hist.notified[t] = 1
    /\ outstanding_reqs \ hist.atstart # {}

\* C17: when the wait of ufshcd_uic_pwr_ctrl times out and the command is
\* still active, ret is -ETIMEDOUT; ufshcd_uic_pwr_ctrl then marks the link
\* broken and schedules the error handler, so that the run state becomes
\* EH_SCHEDULED_FATAL unless it is ERROR, and returns -ETIMEDOUT
PwrTimeoutBreaksLink ==
    [][\A i \in UicIssuers :
        /\ (/\ uic_cmd[i].pc = "ptimedout"
            /\ uic_cmd'[i].pc # "ptimedout"
            /\ uic_cmd[i].cmd_active)
              => uic_cmd'[i].pc = "pout" /\ uic_cmd'[i].ret = "ETIMEDOUT"
        /\ (/\ uic_cmd[i].pc = "pout"
            /\ uic_cmd'[i].pc # "pout"
            /\ uic_cmd[i].ret = "ETIMEDOUT")
              => /\ uic_link_state' = UIC_LINK_BROKEN_STATE
                 /\ uic_cmd'[i].ret = "ETIMEDOUT"
                 /\ IF ufshcd_state = UFSHCD_STATE_ERROR
                    THEN ufshcd_state' = UFSHCD_STATE_ERROR
                    ELSE /\ ufshcd_state' = UFSHCD_STATE_EH_SCHEDULED_FATAL
                         /\ eh_work'.pending
        /\ (/\ uic_cmd[i].pc = "pret"
            /\ uic_cmd'[i].pc = "idle"
            /\ uic_cmd[i].ret = "ETIMEDOUT")
              => uic_cmd'[i].ret = "ETIMEDOUT"]_vars

\* ufshcd_uic_pwr_ctrl is about to return -ETIMEDOUT
PwrCtrlTimedOut ==
    \E i \in UicIssuers :
        /\ uic_cmd[i].pc = "pret"
        /\ uic_cmd[i].ret = "ETIMEDOUT"
        /\ uic_link_state = UIC_LINK_BROKEN_STATE
        /\ ufshcd_state = UFSHCD_STATE_EH_SCHEDULED_FATAL

\* C18: at most one link control command is in flight: when
\* ufshcd_dispatch_uic_cmd runs hba->active_uic_cmd is NULL, and when
\* ufshcd_send_uic_cmd or ufshcd_uic_pwr_ctrl returns after it has dispatched
\* a command hba->active_uic_cmd is NULL again
OneUicCommandInFlight ==
    [][/\ ~hist'.warn
       /\ \A i \in UicIssuers :
           /\ (i \in hist'.dispatched /\ i \notin hist.dispatched)
                 => active_uic_cmd = NULL /\ active_uic_cmd' = i
           /\ (/\ uic_cmd[i].pc \in {"unlock", "pret"}
               /\ uic_cmd'[i].pc = "idle"
               /\ i \in hist.dispatched)
                 => active_uic_cmd' = NULL]_vars

\* one issuer has returned after its command was dispatched and the command
\* of another one is active
SecondUicCommandActive ==
    \E i, j \in UicIssuers :
        /\ i # j
        /\ uic_cmd[i].pc = "idle"
        /\ i \in hist.dispatched
        /\ uic_cmd[j].pc \in {"wait", "pwait"}
        /\ active_uic_cmd = j

\* C19: when ufshcd_uic_pwr_ctrl returns, by whichever path, UIC_COMMAND_COMPL
\* is enabled in REG_INTERRUPT_ENABLE exactly when it was at the entry; while
\* the power mode command is pending UIC_COMMAND_COMPL is disabled
PwrCtrlRestoresComplIntr ==
    [][\A i \in UicIssuers :
        /\ (uic_cmd[i].pc = "pret" /\ uic_cmd'[i].pc = "idle")
              => ((UIC_COMMAND_COMPL \in intr_enable') <=> uic_cmd[i].was_enabled)
        /\ uic_cmd'[i].pc \in {"pwait", "ptimedout", "upmcrs"}
              => UIC_COMMAND_COMPL \notin intr_enable']_vars

\* ufshcd_uic_pwr_ctrl is about to return after a bad power mode status, with
\* UIC_COMMAND_COMPL enabled again
PwrCtrlReenabledComplIntr ==
    \E i \in UicIssuers :
        /\ uic_cmd[i].pc = "pret"
        /\ uic_cmd[i].ret = PWR_FATAL_ERROR
        /\ uic_cmd[i].was_enabled
        /\ UIC_COMMAND_COMPL \in intr_enable

\* C20: after a wait that timed out, ufshcd_send_uic_cmd returns the result
\* the interrupt handler has delivered when cmd_active is cleared, and
\* ufshcd_uic_pwr_ctrl goes on to the check of UPMCRS; -ETIMEDOUT is the
\* result only when the command is still active
TimeoutReturnsDeliveredResult ==
    [][\A i \in UicIssuers :
        /\ (uic_cmd[i].pc = "timedout" /\ uic_cmd'[i].pc # "timedout")
              => uic_cmd'[i].ret = IF uic_cmd[i].cmd_active THEN "ETIMEDOUT"
                                   ELSE uic_cmd[i].result
        /\ (uic_cmd[i].pc = "ptimedout" /\ uic_cmd'[i].pc # "ptimedout")
              => IF uic_cmd[i].cmd_active
                 THEN uic_cmd'[i].ret = "ETIMEDOUT"
                 ELSE uic_cmd'[i].pc = "upmcrs" /\ uic_cmd'[i].ret = "0"
        /\ (uic_cmd[i].pc = "upmcrs" /\ uic_cmd'[i].pc # "upmcrs")
              => uic_cmd'[i].ret = IF upmcrs = PWR_LOCAL THEN "0"
                                   ELSE IF upmcrs = PWR_OK THEN "-1"
                                   ELSE upmcrs
        /\ (uic_cmd'[i].ret = "ETIMEDOUT" /\ uic_cmd[i].ret # "ETIMEDOUT")
              => uic_cmd[i].pc \in {"timedout", "ptimedout"} /\ uic_cmd[i].cmd_active
        /\ (uic_cmd[i].pc \in {"unlock", "pret"} /\ uic_cmd'[i].pc = "idle")
              => uic_cmd'[i].ret = uic_cmd[i].ret]_vars

\* the wait of ufshcd_send_uic_cmd timed out and the result of the command,
\* which the interrupt handler delivered meanwhile, is returned
TimedOutWithResult ==
    \E i \in UicIssuers :
        /\ uic_cmd[i].pc = "unlock"
        /\ uic_cmd[i].timed_out
        /\ uic_cmd[i].ret = "fail"
        /\ uic_cmd[i].result = "fail"

\* ------------------------------------------------------------------------
\* The run state ERROR: a data command, the errors the controller raises, the
\* host reset handler of the SCSI error handling and the error handler
\* ------------------------------------------------------------------------
AbsorbNext ==
    \/ QcClaim(0) \/ QcIssue(0)
    \/ DeviceCompletes
    \/ DeviceRaisesError
    \/ Interrupt
    \/ EhHostResetHandler
    \/ ErrHandler

AbsorbSpec == Init /\ [][AbsorbNext]_vars

\* C37: once the run state is ERROR, no error interrupt, no call of
\* ufshcd_schedule_eh_work, no step of ufshcd_err_handler and no call of
\* ufshcd_queuecommand changes the run state or queues the error handler
\* (ufshcd_link_recovery is not one of these)
ErrorIsAbsorbing ==
    [][ufshcd_state = UFSHCD_STATE_ERROR
          => /\ ufshcd_state' = UFSHCD_STATE_ERROR
             /\ (eh_work'.pending => eh_work.pending)]_vars

\* in ERROR a command has been completed with DID_ERROR, the host reset handler
\* waits for the error handler, and the error handler, queued before the run
\* state became ERROR, has been started again with an error saved
ErrorStateExercised ==
    /\ ufshcd_state = UFSHCD_STATE_ERROR
    /\ hist.result[0] = DID_ERROR
    /\ eh_host_reset.pc = "flush"
    /\ eh.pc = "entry"
    /\ saved_err # {}

\* the error handler is queued for a fatal error and has not been started
FatalRecoveryScheduled ==
    /\ ufshcd_state = UFSHCD_STATE_EH_SCHEDULED_FATAL
    /\ eh_work.pending
    /\ ~eh_work.running

\* C38: once the run state is EH_SCHEDULED_FATAL, an error detected before the
\* error handler is started leaves it EH_SCHEDULED_FATAL: the run state does
\* not become EH_SCHEDULED_NON_FATAL, in which data commands are sent
ScheduledFatalNeverDowngraded ==
    [][FatalRecoveryScheduled
          => ufshcd_state' # UFSHCD_STATE_EH_SCHEDULED_NON_FATAL]_vars

\* ------------------------------------------------------------------------
\* ufshcd_verify_dev_init: the NOP OUT loop beside the data commands, with a
\* device that answers a NOP OUT with a NOP IN or with a reject
\* ------------------------------------------------------------------------
NopDescs == {[ocs |-> OCS_SUCCESS, rsp |-> r, status |-> SAM_STAT_GOOD] :
                r \in {UPIU_TRANSACTION_NOP_IN, UPIU_TRANSACTION_REJECT_UPIU}}

NopNext ==
    \/ VerifyDevInit
    \/ VerifyDevInitLoop
    \/ DevCmd
    \/ \E t \in Tags : QcClaim(t) \/ QcIssue(t)
    \/ DeviceCompletesIn(NopDescs)
    \/ Interrupt

NopSpec == Init /\ [][NopNext]_vars

\* ufshcd_exec_dev_cmd returns to the loop after its wait has timed out
DevTimedOutReturn == devcmd.pc = "clr_write" /\ devcmd'.pc # "clr_write"

BusySpec == ScaleInit /\ [][Next]_vars

\* C40: with clock scaling supported, whenever the host lock is free
\* clk_scaling.active_reqs is the number of bits set in outstanding_reqs, so
\* it is never negative and is zero when no transfer is outstanding
ActiveReqsCountOutstanding ==
    host_lock = "free"
        => clk_scaling_active_reqs = Cardinality(outstanding_reqs)

====
